---- MODULE Spec2Model ----
(***************************************************************************)
(* RiptideKV storage engine: WAL, memtable, SSTables, manifest and the     *)
(* engine that sequences writes, flushes, compaction and recovery.         *)
(*                                                                         *)
(* Keys are byte strings; the model uses the integers 0..NKeys+1, ordered  *)
(* as the byte strings they stand for: 0 is the empty key, 1..NKeys are    *)
(* one-byte keys, NKeys+1 is a key of MAX_KEY_SIZE+1 bytes.  Value 0 is    *)
(* the empty value, 1..NVals are one-byte values, NVals+1 is a value of    *)
(* MAX_VALUE_SIZE+1 bytes.  Option<T> is a sequence of length 0 (None) or  *)
(* 1 (Some).                                                               *)
(* An SSTable file name sst-<seq:020>-<ms>.sst is the pair <<seq, ms>>.    *)
(* The u64 range of seq is scaled to 0..U64Max.                            *)
(***************************************************************************)
EXTENDS Integers, Sequences, FiniteSets, TLC

VARIABLES
    eng,    \* the Engine struct (in memory); meaningful while up
    disk,   \* wal file, sst directory, MANIFEST
    up,     \* TRUE while an Engine value exists
    now,    \* the clock at the last SystemTime::now(), in milliseconds
    last,   \* the last call made on the engine and its outcome
    hist,   \* history: what the callers were told so far
    unit    \* a component driven on its own (merge iterator, WAL file, SSTable
            \* file): its state; [kind |-> "none"] while the engine is what runs

vars == <<eng, disk, up, now, last, hist, unit>>

-----------------------------------------------------------------------------
(* Bounds *)

NKeys == 2
NVals == 2
U64Max == 3
MaxClock == 1
MaxIncidents == 1
MaxMutations == 3
MaxTorn == 2

(* Program constants *)

MAX_KEY_SIZE == 65536
MAX_VALUE_SIZE == 10485760
DEFAULT_L0_COMPACTION_TRIGGER == 4

Keys == 1..NKeys
Vals == 1..NVals
EmptyKey == 0
BigKey == NKeys + 1
BigVal == NVals + 1

KeyLen(k) == IF k = EmptyKey THEN 0 ELSE IF k \in Keys THEN 1 ELSE MAX_KEY_SIZE + 1
ValLen(v) == IF v = 0 THEN 0 ELSE IF v \in Vals THEN 1 ELSE MAX_VALUE_SIZE + 1

None == <<>>
Some(v) == <<v>>
OptLen(o) == IF o = None THEN 0 ELSE ValLen(o[1])

Max(a, b) == IF a >= b THEN a ELSE b
SatSub(a, b) == IF a >= b THEN a - b ELSE 0

EmptyMap == [k \in {} |-> [seq |-> 0, value |-> None]]
MapPut(f, k, e) == [x \in DOMAIN f \cup {k} |-> IF x = k THEN e ELSE f[x]]

RECURSIVE SetMax(_)
SetMax(S) == IF S = {} THEN 0
             ELSE LET x == CHOOSE y \in S : TRUE IN Max(x, SetMax(S \ {x}))

-----------------------------------------------------------------------------
(* Memtable *)

MemNew == [map |-> EmptyMap, approx_size |-> 0]

\* a put that is ignored only below the seq of the entry
MemPutOverEqual(m, key, value, seq) ==
    IF key \in DOMAIN m.map /\ m.map[key].seq > seq
    THEN m
    ELSE LET base == IF key \in DOMAIN m.map
                     THEN SatSub(m.approx_size, OptLen(m.map[key].value))
                     ELSE m.approx_size + KeyLen(key)
         IN  [map |-> MapPut(m.map, key, [seq |-> seq, value |-> Some(value)]),
              approx_size |-> base + ValLen(value)]

MemPut(m, key, value, seq) ==
    IF key \in DOMAIN m.map /\ m.map[key].seq >= seq
    THEN m
    ELSE LET base == IF key \in DOMAIN m.map
                     THEN SatSub(m.approx_size, OptLen(m.map[key].value))
                     ELSE m.approx_size + KeyLen(key)
         IN  [map |-> MapPut(m.map, key, [seq |-> seq, value |-> Some(value)]),
              approx_size |-> base + ValLen(value)]

\* a delete that leaves the bytes of the value it replaces counted
MemDeleteKeepsSize(m, key, seq) ==
    IF key \in DOMAIN m.map /\ m.map[key].seq >= seq
    THEN m
    ELSE [map |-> MapPut(m.map, key, [seq |-> seq, value |-> None]),
          approx_size |-> IF key \in DOMAIN m.map THEN m.approx_size
                          ELSE m.approx_size + KeyLen(key)]

MemDelete(m, key, seq) ==
    IF key \in DOMAIN m.map /\ m.map[key].seq >= seq
    THEN m
    ELSE LET base == IF key \in DOMAIN m.map
                     THEN SatSub(m.approx_size, OptLen(m.map[key].value))
                     ELSE m.approx_size + KeyLen(key)
         IN  [map |-> MapPut(m.map, key, [seq |-> seq, value |-> None]),
              approx_size |-> base]

MemIsEmpty(m) == DOMAIN m.map = {}
MemContainsKey(m, key) == key \in DOMAIN m.map
\* a clear that leaves the memtable as it is
MemKept(m) == m

MemClear(m) == [map |-> EmptyMap, approx_size |-> 0]

-----------------------------------------------------------------------------
(* WAL *)

\* The WAL file is a sequence of bytes.  A frame is record_len, crc, body; the
\* body of a put is seq, op = 0, key_len, key, val_len, value and that of a del
\* seq, op = 1, key_len, key.  The u32 and u64 fields are scaled to IntWidth
\* bytes, little-endian, and the CRC-32 to a checksum of that width.
Byte == 256
IntWidth == 2
MAX_RECORD_SIZE == 67108864

LE(n) == <<n % Byte, (n \div Byte) % Byte>>
ReadInt(b, p) == b[p] + Byte * b[p + 1]

\* the checksum: any change of one byte of the body changes it
RECURSIVE CrcFrom(_, _, _)
CrcFrom(body, i, h) ==
    IF i > Len(body) THEN h ELSE CrcFrom(body, i + 1, (h * 31 + body[i] + 7) % 65521)

Crc32(body) == CrcFrom(body, 1, 1)

\* a WalRecord; value is None for WalRecord::Del
WalPut(seq, key, value) == [seq |-> seq, key |-> key, value |-> Some(value)]
WalDel(seq, key) == [seq |-> seq, key |-> key, value |-> None]

\* the bytes of a key or value of the model, and the key of a byte string
\* read back
KeyBytes(k) == IF k = EmptyKey THEN <<>> ELSE <<k>>
KeyOfBytes(bs) == IF bs = <<>> THEN EmptyKey ELSE IF Len(bs) = 1 THEN bs[1] ELSE BigKey

\* the body append serializes into buf[8..]
Body(rec) ==
    IF rec.value = None
    THEN LE(rec.seq) \o <<1>> \o LE(Len(KeyBytes(rec.key))) \o KeyBytes(rec.key)
    ELSE LE(rec.seq) \o <<0>> \o LE(Len(KeyBytes(rec.key))) \o KeyBytes(rec.key)
            \o (IF rec.value[1] = 0 THEN LE(0) ELSE LE(1) \o <<rec.value[1]>>)

\* the frame around a body: record_len = body.len() + 4, crc, body
FrameOf(body) == LE(Len(body) + IntWidth) \o LE(Crc32(body)) \o body

Frame(rec) == FrameOf(Body(rec))

\* WalReader::replay: the records delivered to apply, in order, and the result
\* ("none" for Ok, "corrupt" for WalError::Corrupt, "io" for WalError::Io)
Replayed(records, err) == [records |-> records, err |-> err]

\* the parse of a body whose CRC matched: the record it holds, or the error
\* of the read that ran past the end of the body or of a length check
ParseBody(body) ==
    LET key_at  == 2 * IntWidth + 2
        key_len == ReadInt(body, IntWidth + 2)
        val_at  == key_at + key_len + IntWidth
        val_len == ReadInt(body, key_at + key_len)
        key     == KeyOfBytes(SubSeq(body, key_at, key_at + key_len - 1))
        val     == SubSeq(body, val_at, val_at + val_len - 1)
    IN  IF Len(body) < key_at - 1 THEN Replayed(<<>>, "io")
        ELSE IF key_len > Len(body) THEN Replayed(<<>>, "corrupt")
        ELSE IF key_at + key_len - 1 > Len(body) THEN Replayed(<<>>, "io")
        ELSE IF body[IntWidth + 1] = 1
        THEN Replayed(<<WalDel(ReadInt(body, 1), key)>>, "none")
        ELSE IF body[IntWidth + 1] # 0 THEN Replayed(<<>>, "corrupt")
        ELSE IF val_at - 1 > Len(body) THEN Replayed(<<>>, "io")
        ELSE IF val_len > Len(body) THEN Replayed(<<>>, "corrupt")
        ELSE IF val_at + val_len - 1 > Len(body) THEN Replayed(<<>>, "io")
        ELSE Replayed(<<WalPut(ReadInt(body, 1), key,
                               IF val_len = 0 THEN 0
                               ELSE IF val_len = 1 THEN val[1] ELSE BigVal)>>, "none")

\* the loop of replay from byte p of the file on
RECURSIVE ReplayFrom(_, _, _)
ReplayFrom(b, p, acc) ==
    LET record_len == ReadInt(b, p)
        body       == SubSeq(b, p + 2 * IntWidth, p + IntWidth - 1 + record_len)
    IN  IF p + IntWidth - 1 > Len(b) THEN Replayed(acc, "none")
        ELSE IF record_len <= IntWidth \/ record_len > MAX_RECORD_SIZE
        THEN Replayed(acc, "corrupt")
        ELSE IF p + 2 * IntWidth - 1 > Len(b) THEN Replayed(acc, "none")
        ELSE IF p + IntWidth - 1 + record_len > Len(b) THEN Replayed(acc, "none")
        ELSE IF Crc32(body) # ReadInt(b, p + IntWidth) THEN Replayed(acc, "corrupt")
        ELSE IF ParseBody(body).err # "none" THEN Replayed(acc, ParseBody(body).err)
        ELSE ReplayFrom(b, p + IntWidth + record_len, acc \o ParseBody(body).records)

replay(b) == ReplayFrom(b, 1, <<>>)

ApplyWal(m, r) ==
    IF r.value = None THEN MemDelete(m, r.key, r.seq)
                      ELSE MemPut(m, r.key, r.value[1], r.seq)

\* the closure replay_wal_and_build passes to replay, over the records delivered
RECURSIVE ApplyAll(_, _, _)
ApplyAll(records, i, acc) ==
    IF i > Len(records) THEN acc
    ELSE ApplyAll(records, i + 1,
                  [mem |-> ApplyWal(acc.mem, records[i]),
                   max_seq |-> Max(acc.max_seq, records[i].seq)])

\* the memtable built and the highest seq seen, with the result of replay
BuildFrom(r) ==
    [mem |-> ApplyAll(r.records, 1, [mem |-> MemNew, max_seq |-> 0]).mem,
     max_seq |-> ApplyAll(r.records, 1, [mem |-> MemNew, max_seq |-> 0]).max_seq,
     err |-> r.err]

replay_wal_and_build(wal) == BuildFrom(replay(wal))

-----------------------------------------------------------------------------
(* SSTable files and readers *)

\* The file written by SSTableWriter::write_internal from a key -> entry map
SstFile(entries) == [entries |-> entries, max_seq |-> SetMax({entries[k].seq : k \in DOMAIN entries})]

\* SSTableReader::open: the reader keeps the file handle it opened
ReaderOpen(name, file) == [name |-> name, entries |-> file.entries, max_seq |-> file.max_seq]

ReaderGet(r, key) == IF key \in DOMAIN r.entries THEN Some(r.entries[key]) ELSE None

reader_max_seq(r) == r.max_seq

\* paths.sort(); paths.reverse(): by seq, then by ms
RECURSIVE SortDesc(_)
SortDesc(S) ==
    IF S = {} THEN <<>>
    ELSE LET m == CHOOSE x \in S :
                    \A y \in S : ~(x[1] < y[1] \/ (x[1] = y[1] /\ x[2] < y[2]))
         IN  <<m>> \o SortDesc(S \ {m})

-----------------------------------------------------------------------------
(* Manifest *)

ManifestLevel(entries, level) ==
    SelectSeq(entries, LAMBDA e : e.level = level)

RECURSIVE NamesOf(_)
NamesOf(s) == IF s = <<>> THEN <<>> ELSE <<Head(s).filename>> \o NamesOf(Tail(s))

l0_filenames(entries) == NamesOf(ManifestLevel(entries, 0))
l1_filenames(entries) == NamesOf(ManifestLevel(entries, 1))

\* an add that puts the entry after every other
ManifestAddLast(entries, filename, level) ==
    Append(entries, [filename |-> filename, level |-> level])

\* p: the position of the first entry of the level, or the end
ManifestAdd(entries, filename, level) ==
    LET p == IF \E i \in 1..Len(entries) : entries[i].level = level
             THEN CHOOSE i \in 1..Len(entries) :
                     /\ entries[i].level = level
                     /\ \A j \in 1..(i - 1) : entries[j].level # level
             ELSE Len(entries) + 1
    IN  SubSeq(entries, 1, p - 1) \o <<[filename |-> filename, level |-> level]>>
            \o SubSeq(entries, p, Len(entries))

\* a replacement that lists the file in L0
ReplaceAllWithL0(filename) == <<[filename |-> filename, level |-> 0]>>

replace_all_with_l1(filename) == <<[filename |-> filename, level |-> 1]>>

-----------------------------------------------------------------------------
(* Disk: the WAL file, the .sst and .sst.tmp files of sst_dir, MANIFEST *)

FreshDisk ==
    [wal |-> <<>>, files |-> [n \in {} |-> SstFile(EmptyMap)], tmp |-> {}, manifest |-> <<>>]

FilePut(files, name, file) == [n \in DOMAIN files \cup {name} |-> IF n = name THEN file ELSE files[n]]
\* a removal that removes nothing
FilesKept(files, names) == files

FilesRemove(files, names) == [n \in DOMAIN files \ names |-> files[n]]

-----------------------------------------------------------------------------
(* Engine::new *)

\* for filename in names { if path.exists() { push(SSTableReader::open(path)) } }
RECURSIVE LoadListed(_, _)
LoadListed(names, files) ==
    IF names = <<>> THEN <<>>
    ELSE LET rest == LoadListed(Tail(names), files)
         IN  IF Head(names) \in DOMAIN files
             THEN <<ReaderOpen(Head(names), files[Head(names)])>> \o rest
             ELSE rest

\* for path in &paths { manifest.add(name, 0) }
RECURSIVE AddAllL0(_, _)
AddAllL0(entries, paths) ==
    IF paths = <<>> THEN entries
    ELSE AddAllL0(ManifestAdd(entries, Head(paths), 0), Tail(paths))

RECURSIVE ReadersMaxSeq(_)
ReadersMaxSeq(rs) ==
    IF rs = <<>> THEN 0 ELSE Max(reader_max_seq(Head(rs)), ReadersMaxSeq(Tail(rs)))

\* the result of Engine::new once the WAL replayed as rep: err is "none" for
\* Ok(engine), else the error of the replay, with no engine
EngineNewFrom(d, flush_threshold, wal_sync, rep) ==
    LET loaded == d.manifest
        listed == loaded # <<>>
        paths == SortDesc(DOMAIN d.files)
        l0 == IF listed THEN LoadListed(l0_filenames(loaded), d.files)
                        ELSE LoadListed(paths, d.files)
        l1 == IF listed THEN LoadListed(l1_filenames(loaded), d.files) ELSE <<>>
        manifest == IF listed \/ paths = <<>> THEN loaded ELSE AddAllL0(loaded, paths)
    IN  IF rep.err = "none"
        THEN [eng |-> [mem |-> rep.mem,
                       l0_sstables |-> l0,
                       l1_sstables |-> l1,
                       manifest |-> manifest,
                       seq |-> Max(rep.max_seq, Max(ReadersMaxSeq(l0), ReadersMaxSeq(l1))),
                       flush_threshold |-> flush_threshold,
                       l0_compaction_trigger |-> DEFAULT_L0_COMPACTION_TRIGGER,
                       wal_sync |-> wal_sync],
              disk |-> [d EXCEPT !.tmp = {}, !.manifest = manifest],
              err |-> "none"]
        \* cleanup_tmp_files, then replay_wal_and_build(..)? returned the error
        ELSE [eng |-> [mem |-> MemNew,
                       l0_sstables |-> <<>>,
                       l1_sstables |-> <<>>,
                       manifest |-> <<>>,
                       seq |-> 0,
                       flush_threshold |-> flush_threshold,
                       l0_compaction_trigger |-> DEFAULT_L0_COMPACTION_TRIGGER,
                       wal_sync |-> wal_sync],
              disk |-> [d EXCEPT !.tmp = {}],
              err |-> rep.err]

EngineNew(d, flush_threshold, wal_sync) ==
    EngineNewFrom(d, flush_threshold, wal_sync, replay_wal_and_build(d.wal))

-----------------------------------------------------------------------------
(* Read path *)

\* entry.value.map(|v| (entry.seq, v))
Live(entry) == IF entry.value = None THEN None ELSE Some(<<entry.seq, entry.value[1]>>)

\* last reader of the list holding the key
RECURSIVE ProbeOldest(_, _)
ProbeOldest(readers, key) ==
    IF readers = <<>> THEN None
    ELSE LET r == ProbeOldest(Tail(readers), key)
         IN  IF r # None THEN r ELSE ReaderGet(Head(readers), key)

\* first reader of the list holding the key
RECURSIVE Probe(_, _)
Probe(readers, key) ==
    IF readers = <<>> THEN None
    ELSE LET r == ReaderGet(Head(readers), key)
         IN  IF r # None THEN r ELSE Probe(Tail(readers), key)

Get(e, key) ==
    IF MemContainsKey(e.mem, key) THEN Live(e.mem.map[key])
    ELSE LET r0 == Probe(e.l0_sstables, key)
         IN  IF r0 # None THEN Live(r0[1])
             ELSE LET r1 == Probe(e.l1_sstables, key)
                  IN  IF r1 # None THEN Live(r1[1]) ELSE None

\* a range that includes its end
InRangeClosed(k, start, end) ==
    /\ ~(start # EmptyKey /\ k < start)
    /\ ~(end # EmptyKey /\ k > end)

InRange(k, start, end) ==
    /\ ~(start # EmptyKey /\ k < start)
    /\ ~(end # EmptyKey /\ k >= end)

\* merge_entry over every in-range key of one source
MergeSource(merged, src, start, end) ==
    LET ks == {k \in DOMAIN src : InRange(k, start, end)}
    IN  [k \in DOMAIN merged \cup ks |->
            IF k \in DOMAIN merged /\ (k \notin ks \/ merged[k].seq >= src[k].seq)
            THEN merged[k] ELSE src[k]]

\* for sst in readers { for key_ref in sst.keys() { if let Ok(Some(entry)) =
\* sst.get(key_ref) { merge_entry(..) } } }: bad holds the <<file, key>> whose
\* read fails
RECURSIVE MergeReaders(_, _, _, _, _)
MergeReaders(merged, readers, start, end, bad) ==
    IF readers = <<>> THEN merged
    ELSE LET sst == Head(readers)
             got == [k \in {x \in DOMAIN sst.entries : <<sst.name, x>> \notin bad} |->
                        sst.entries[k]]
         IN  MergeReaders(MergeSource(merged, got, start, end), Tail(readers), start, end, bad)

\* merged.into_iter().filter_map(..): ascending keys, tombstones dropped
RECURSIVE LivePairs(_, _)
LivePairs(merged, ks) ==
    IF ks = {} THEN <<>>
    ELSE LET k == CHOOSE x \in ks : \A y \in ks : x <= y
             rest == LivePairs(merged, ks \ {k})
         IN  IF merged[k].value = None THEN rest
             ELSE <<(<<k, merged[k].value[1]>>)>> \o rest

\* Engine::scan when the reads of bad fail: the Result it returns, which is
\* Ok(result) on every path
ScanResult(e, start, end, bad) ==
    LET m0 == MergeSource(EmptyMap, e.mem.map, start, end)
        m1 == MergeReaders(m0, e.l0_sstables, start, end, bad)
        m2 == MergeReaders(m1, e.l1_sstables, start, end, bad)
    IN  [err |-> "none", pairs |-> LivePairs(m2, DOMAIN m2)]

\* Engine::scan when every read succeeds
Scan(e, start, end) == ScanResult(e, start, end, {}).pairs

-----------------------------------------------------------------------------
(* Compaction *)

\* a merge that keeps per key the entry with the lowest seq
RECURSIVE MergeOldest(_, _, _)
MergeOldest(best, readers, key) ==
    IF readers = <<>> THEN best
    ELSE LET r == ReaderGet(Head(readers), key)
         IN  MergeOldest(IF r # None /\ (best = None \/ r[1].seq < best[1].seq) THEN r ELSE best,
                         Tail(readers), key)

\* MergeIterator: per key the entry with the highest seq; a later source
\* replaces the best so far only when its seq is strictly greater
RECURSIVE MergeBest(_, _, _)
MergeBest(best, readers, key) ==
    IF readers = <<>> THEN best
    ELSE LET r == ReaderGet(Head(readers), key)
         IN  MergeBest(IF r # None /\ (best = None \/ r[1].seq > best[1].seq) THEN r ELSE best,
                       Tail(readers), key)

RECURSIVE ReaderKeys(_)
ReaderKeys(readers) ==
    IF readers = <<>> THEN {} ELSE DOMAIN Head(readers).entries \cup ReaderKeys(Tail(readers))

MergeIterator(readers) ==
    [k \in ReaderKeys(readers) |-> MergeBest(None, readers, k)[1]]

\* The iterator step by step.  A HeapEntry is <<key, source>>; the heap pops
\* the smallest key first and, among equal keys, the lowest source.

\* reader.keys(): the keys of the index, ascending
RECURSIVE SortedKeys(_)
SortedKeys(S) ==
    IF S = {} THEN <<>>
    ELSE LET k == CHOOSE x \in S : \A y \in S : x <= y
         IN  <<k>> \o SortedKeys(S \ {k})

\* MergeIterator::new: the first key of every reader on the heap.  bad holds
\* the <<key, source>> whose record SSTableReader::get fails to read.
MergeNew(readers) ==
    LET keys == [i \in 1..Len(readers) |-> SortedKeys(DOMAIN readers[i].entries)]
    IN  [readers |-> readers,
         bad |-> {},
         key_iters |-> [i \in 1..Len(readers) |->
                          IF keys[i] = <<>> THEN <<>> ELSE Tail(keys[i])],
         heap |-> {<<keys[i][1], i>> : i \in {j \in 1..Len(readers) : keys[j] # <<>>}}]

HeapPeek(heap) ==
    CHOOSE h \in heap : \A g \in heap : h[1] < g[1] \/ (h[1] = g[1] /\ h[2] <= g[2])

\* heap.pop() of h, then key_iters[source].next() pushed when there is one
PopAdvance(it, h) ==
    LET rest == it.key_iters[h[2]]
    IN  [it EXCEPT !.heap = (@ \ {h}) \cup (IF rest = <<>> THEN {} ELSE {<<rest[1], h[2]>>}),
                   !.key_iters[h[2]] = IF rest = <<>> THEN rest ELSE Tail(rest)]

\* a drain that keeps the entry of the first source whatever the seqs
RECURSIVE DrainKeepFirst(_, _, _)
DrainKeepFirst(it, best_key, best_entry) ==
    IF it.heap = {} \/ HeapPeek(it.heap)[1] # best_key
    THEN [it |-> it, entry |-> best_entry]
    ELSE DrainKeepFirst(PopAdvance(it, HeapPeek(it.heap)), best_key, best_entry)

\* the while-let loop of next_entry: drain the heap entries with best_key;
\* a read that fails is not Ok(Some(dup_entry)) and leaves best_entry
RECURSIVE DrainDuplicates(_, _, _)
DrainDuplicates(it, best_key, best_entry) ==
    IF it.heap = {} \/ HeapPeek(it.heap)[1] # best_key
    THEN [it |-> it, entry |-> best_entry]
    ELSE LET dup == HeapPeek(it.heap)
             dup_entry == IF dup \in it.bad THEN None
                          ELSE ReaderGet(it.readers[dup[2]], dup[1])
         IN  DrainDuplicates(PopAdvance(it, dup), best_key,
                             IF dup_entry # None /\ dup_entry[1].seq > best_entry.seq
                             THEN dup_entry[1] ELSE best_entry)

\* MergeIterator::next_entry: the iterator it leaves, the item it returns and
\* "io" when it returned the error of the read of the entry it popped
RECURSIVE next_entry(_)
next_entry(it) ==
    IF it.heap = {} THEN [it |-> it, item |-> None, err |-> "none"]
    ELSE LET top == HeapPeek(it.heap)
             entry == ReaderGet(it.readers[top[2]], top[1])
         IN  IF top \in it.bad
             THEN [it |-> [it EXCEPT !.heap = @ \ {top}], item |-> None, err |-> "io"]
             ELSE IF entry = None THEN next_entry(PopAdvance(it, top))
             ELSE LET d == DrainDuplicates(PopAdvance(it, top), top[1], entry[1])
                  IN  [it |-> d.it, item |-> Some(<<top[1], d.entry>>), err |-> "none"]

\* the streaming filter of compact(): which merged entries reach the writer
CompactKeeps(mem, key, entry) == ~(entry.value = None /\ MemContainsKey(mem, key))

\* A call's outcome: the engine and disk it leaves, the error it returned
\* ("none" for Ok, "invalid" for a failed ensure!, "overflow" for checked_add,
\* "io" for a failed write, sync or read, "open" for a failed
\* SSTableReader::open), the clock at the call's last SystemTime::now(), and
\* the states a kill of the process during the call can leave on disk, each
\* with the step ("wal", "flush" or "compact") it interrupts and the clock at
\* that step.
Outcome(e, d, err, t, points) == [eng |-> e, disk |-> d, err |-> err, now |-> t, points |-> points]
Points(at, disks, t) == {[at |-> at, disk |-> x, now |-> t] : x \in disks}

\* the outcome r of the last step of a call whose earlier steps left the kill
\* points before
After(before, r) == Outcome(r.eng, r.disk, r.err, r.now, before \cup r.points)

\* t is the clock before the call, dt the milliseconds until compact reads it
Compact(e, d, t, dt, fail) ==
    LET total == Len(e.l0_sstables) + Len(e.l1_sstables)
        old_paths == DOMAIN d.files
        all_sstables == e.l0_sstables \o e.l1_sstables
        merged == MergeIterator(all_sstables)
        kept == [k \in {x \in DOMAIN merged : CompactKeeps(e.mem, x, merged[x])} |-> merged[k]]
        \* the entries that reached the writer when the read of the last key fails
        early == [k \in {x \in DOMAIN kept : x < SetMax(DOMAIN merged)} |-> kept[k]]
        ts == t + dt
        sst_name == <<e.seq, ts>>
        taken == [e EXCEPT !.l0_sstables = <<>>, !.l1_sstables = <<>>]
        dTmp == [d EXCEPT !.tmp = @ \cup {sst_name}]
        \* the .sst.tmp the writer created is renamed or removed: a file of
        \* that name left by an earlier call is gone with it
        dUntmp == [d EXCEPT !.tmp = @ \ {sst_name}]
        \* let _ = remove_file(p) for each old path, one at a time
        partial(dd) == {[dd EXCEPT !.files = FilesRemove(@, {p})] : p \in old_paths}
        \* empty merge: old files deleted, then the manifest cleared and saved
        dGone == [dUntmp EXCEPT !.files = FilesRemove(@, old_paths)]
        dCleared == [dGone EXCEPT !.manifest = <<>>]
        cleared == [taken EXCEPT !.manifest = <<>>]
        \* normal path
        dNew == [dUntmp EXCEPT !.files = FilePut(@, sst_name, SstFile(kept))]
        dEarly == [dUntmp EXCEPT !.files = FilePut(@, sst_name, SstFile(early))]
        entries == replace_all_with_l1(sst_name)
        dSaved == [dNew EXCEPT !.manifest = entries]
        dDone == [dSaved EXCEPT !.files = FilesRemove(@, old_paths)]
        saved == [taken EXCEPT !.manifest = entries]
        emptied == Points("compact", {dTmp} \cup partial(dUntmp) \cup {dGone}, ts)
        replaced == Points("compact", {dTmp, dNew, dSaved} \cup partial(dSaved), ts)
    IN  IF total <= 1 THEN Outcome(e, d, "none", t, {})
        ELSE IF fail = "merge_read"
        THEN Outcome(taken, dUntmp, "io", ts, Points("compact", {dTmp}, ts))
        \* the writer takes the early end of the iterator for its end and
        \* renames what it got into place before merge_error is looked at
        ELSE IF fail = "merge_read_late" /\ DOMAIN early # {}
        THEN Outcome(taken, dEarly, "io", ts, Points("compact", {dTmp, dEarly}, ts))
        ELSE IF fail = "compact_write"
        THEN Outcome(taken, dTmp, "io", ts, Points("compact", {dTmp}, ts))
        ELSE IF DOMAIN kept = {}
        THEN IF fail = "compact_manifest"
             THEN Outcome(cleared, dGone, "io", ts, emptied)
             ELSE Outcome(cleared, dCleared, "none", ts, emptied)
        ELSE IF fail = "compact_manifest"
        THEN Outcome(saved, dNew, "io", ts, Points("compact", {dTmp, dNew}, ts))
        ELSE IF sst_name \in DOMAIN dDone.files
        THEN Outcome([saved EXCEPT !.l1_sstables = <<ReaderOpen(sst_name, dDone.files[sst_name])>>],
                     dDone, "none", ts, replaced)
        \* SSTableReader::open(&sst_path) fails: the file was among old_paths
        ELSE Outcome(saved, dDone, "open", ts, replaced)

-----------------------------------------------------------------------------
(* Write path *)

\* a trigger that fires only above the configured count
TriggerExceeded(e) ==
    e.l0_compaction_trigger > 0 /\ Len(e.l0_sstables) > e.l0_compaction_trigger

\* l0_compaction_trigger > 0 && l0_sstables.len() >= l0_compaction_trigger
TriggerReached(e) ==
    e.l0_compaction_trigger > 0 /\ Len(e.l0_sstables) >= e.l0_compaction_trigger

\* t is the clock before the call, dt the milliseconds until flush reads it,
\* cdt the milliseconds from then until the compaction it triggers reads it
Flush(e, d, t, dt, cdt, fail) ==
    LET ts == t + dt
        sst_name == <<e.seq, ts>>
        dTmp == [d EXCEPT !.tmp = @ \cup {sst_name}]
        \* rename(tmp_path, path)
        dSst == [d EXCEPT !.files = FilePut(@, sst_name, SstFile(e.mem.map)),
                          !.tmp = @ \ {sst_name}]
        entries == ManifestAdd(e.manifest, sst_name, 0)
        added == [e EXCEPT !.manifest = entries]
        dSaved == [dSst EXCEPT !.manifest = entries]
        dTrunc == [dSaved EXCEPT !.wal = <<>>]
        flushed == [added EXCEPT !.mem = MemClear(@),
                                 !.l0_sstables = <<ReaderOpen(sst_name, dTrunc.files[sst_name])>> \o @]
        steps == Points("flush", {dTmp, dSst, dSaved}, ts)
    IN  IF MemIsEmpty(e.mem) THEN Outcome(e, d, "empty", ts, {})
        ELSE IF fail = "sst_write" THEN Outcome(e, dTmp, "io", ts, Points("flush", {dTmp}, ts))
        ELSE IF fail = "manifest_save"
        THEN Outcome(added, dSst, "io", ts, Points("flush", {dTmp, dSst}, ts))
        ELSE IF fail = "wal_truncate" THEN Outcome(added, dSaved, "io", ts, steps)
        ELSE IF TriggerReached(flushed)
        THEN After(steps \cup Points("flush", {dTrunc}, ts),
                   Compact(flushed, dTrunc, ts, cdt, fail))
        ELSE Outcome(flushed, dTrunc, "none", ts, steps)

\* self.seq.checked_add(1)
CheckedAdd(seq) == IF seq = U64Max THEN None ELSE Some(seq + 1)

\* WalWriter::append: one write_all of the frame, then sync_all when sync is set
WalAppend(d, rec) == [d EXCEPT !.wal = @ \o Frame(rec)]

\* the body shared by set and del once the input is validated
Mutate(e, d, rec, t, dt, cdt, fail) ==
    LET next == CheckedAdd(e.seq)
        e1 == [e EXCEPT !.seq = next[1]]
        dW == WalAppend(d, rec)
        e2 == [e1 EXCEPT !.mem = ApplyWal(@, rec)]
        written == Points("wal", {dW}, t)
    IN  IF fail = "wal_write" THEN Outcome(e1, d, "io", t, {})
        ELSE IF fail = "wal_sync" /\ e.wal_sync THEN Outcome(e1, dW, "io", t, written)
        ELSE IF e2.mem.approx_size >= e2.flush_threshold
        THEN After(written, Flush(e2, dW, t, dt, cdt, fail))
        ELSE Outcome(e2, dW, "none", t, written)

\* a set that bumps seq before it validates its input
SetSeqFirst(e, d, key, value, t, dt, cdt, fail) ==
    IF CheckedAdd(e.seq) = None THEN Outcome(e, d, "overflow", t, {})
    ELSE IF KeyLen(key) = 0 \/ KeyLen(key) > MAX_KEY_SIZE \/ ValLen(value) > MAX_VALUE_SIZE
    THEN Outcome([e EXCEPT !.seq = @ + 1], d, "invalid", t, {})
    ELSE Mutate(e, d, WalPut(e.seq + 1, key, value), t, dt, cdt, fail)

Set(e, d, key, value, t, dt, cdt, fail) ==
    IF KeyLen(key) = 0 \/ KeyLen(key) > MAX_KEY_SIZE \/ ValLen(value) > MAX_VALUE_SIZE
    THEN Outcome(e, d, "invalid", t, {})
    ELSE IF CheckedAdd(e.seq) = None THEN Outcome(e, d, "overflow", t, {})
    ELSE Mutate(e, d, WalPut(e.seq + 1, key, value), t, dt, cdt, fail)

Del(e, d, key, t, dt, cdt, fail) ==
    IF KeyLen(key) = 0 \/ KeyLen(key) > MAX_KEY_SIZE
    THEN Outcome(e, d, "invalid", t, {})
    ELSE IF CheckedAdd(e.seq) = None THEN Outcome(e, d, "overflow", t, {})
    ELSE Mutate(e, d, WalDel(e.seq + 1, key), t, dt, cdt, fail)

\* the call was refused before it did anything
Rejected(r) == r.err \in {"invalid", "overflow"}

\* the kill points inside the write_all of the append a set or del that
\* returned r made: a proper prefix of the frame, here of at most MaxTorn
\* bytes, is in the file
TornPoints(r, d, rec, t) ==
    IF Rejected(r) THEN {}
    ELSE Points("wal", {[d EXCEPT !.wal = @ \o SubSeq(Frame(rec), 1, n)] :
                           n \in {x \in 1..MaxTorn : x < Len(Frame(rec))}}, t)

ForceFlush(e, d, t, dt, cdt, fail) ==
    IF MemIsEmpty(e.mem) THEN Outcome(e, d, "none", t, {})
    ELSE Flush(e, d, t, dt, cdt, fail)

\* Drop for Engine: let _ = self.flush()
Drop(e, d, t, dt, cdt, fail) ==
    IF MemIsEmpty(e.mem) THEN Outcome(e, d, "none", t, {})
    ELSE Flush(e, d, t, dt, cdt, fail)

-----------------------------------------------------------------------------
(* The calls a single owner makes, the clock, kill and reopen *)

Fails == {"none", "wal_write", "wal_sync", "sst_write", "manifest_save", "wal_truncate",
          "merge_read", "merge_read_late", "compact_write", "compact_manifest"}

\* the value of eng while no Engine exists; it keeps the arguments the owner
\* passes to every Engine::new of a run
NoEngine == EngineNew(FreshDisk, eng.flush_threshold, eng.wal_sync).eng

\* last: the last call that did or returned anything (a force_flush or compact
\* with nothing to do is not recorded), its error, and for a kill the step it
\* interrupted or, between calls, the mutation just acknowledged
Call(op, key, value, err) == [op |-> op, key |-> key, value |-> value, err |-> err, at |-> "none"]
Killed(op, key, value, at) == [op |-> op, key |-> key, value |-> value, err |-> "killed", at |-> at]

\* a mutation attempted without an acknowledgement
Unacked(h, key, value) == [h EXCEPT !.pending[key] = @ \cup {value}]

\* what the caller learns from a mutation's result: an Ok acknowledges it, a
\* rejection is forgotten, any other Err leaves it pending
Told(h, r, key, st, value) ==
    IF r.err = "none"
    THEN [h EXCEPT !.acked[key] = [st |-> st, value |-> value],
                   !.pending[key] = {},
                   !.maxAcked = Max(@, r.eng.seq),
                   !.prevOk = r.eng.seq,
                   !.mutations = @ + 1]
    ELSE IF Rejected(r) THEN h
    ELSE [Unacked(h, key, value) EXCEPT !.mutations = @ + 1]

\* at most MaxIncidents incidents in a run; an injected failure is one that
\* makes the call fail
FailsNow == IF hist.incidents < MaxIncidents THEN Fails ELSE {"none"}
Fired(fail, r) == fail # "none" => r.err = "io"
Faulted(h, fail) == IF fail # "none" THEN [h EXCEPT !.incidents = @ + 1] ELSE h
Stopped(h) == [h EXCEPT !.prevOk = 0, !.incidents = @ + 1]

\* the engine treats values as opaque bytes; the values written are numbered
\* in the order of their first use
Wrote(h, value) == IF value \in Vals THEN [h EXCEPT !.used = Max(@, value)] ELSE h
FirstUse(value) == value \in Vals => value <= hist.used + 1

\* dt, cdt: the milliseconds that pass before the clock read of a flush (or of
\* a manual compaction) and between it and that of the compaction it triggers
ClockReads == {c \in {0, 1} \X {0, 1} : now + c[1] + c[2] <= MaxClock}
\* the state of a run that starts on directory d with l the last call made:
\* an engine just constructed on a fresh directory, or no engine yet
\* hist: per key the outcome of its last acknowledged mutation (st is "none"
\* before any), the values of the mutations attempted since without an
\* acknowledgement, the highest seq of an acknowledged mutation in any lifetime,
\* the seq of the last acknowledged mutation of this Engine value (0: none),
\* the highest value written, the mutations that got past validation, and the
\* incidents (I/O failures, and closes or kills followed by a reopen) so far
Fresh(ft, d, l) ==
    /\ eng = EngineNew(FreshDisk, ft, TRUE).eng
    /\ disk = d
    /\ up = (l.op = "open")
    /\ now = 0
    /\ last = l
    /\ hist = [acked |-> [k \in Keys |-> [st |-> "none", value |-> None]],
               pending |-> [k \in Keys |-> {}],
               maxAcked |-> 0,
               prevOk |-> 0,
               used |-> 0,
               mutations |-> 0,
               incidents |-> 0]

Init ==
    /\ \E ft \in {1, 3} : Fresh(ft, FreshDisk, Call("open", 0, 0, "none"))
    /\ unit = [kind |-> "none"]

\* a run that starts on a directory written before there was a manifest: two
\* SSTables of two flushes, an empty WAL, no MANIFEST, and no engine yet
InitPreManifest ==
    /\ \E ft \in {1, 3}, k1 \in Keys, k2 \in Keys, v \in {None, Some(1), Some(2)}, ms \in 0..MaxClock :
          Fresh(ft,
                [FreshDisk EXCEPT !.files =
                    FilePut(FilePut(@, <<1, 0>>,
                                    SstFile(MapPut(EmptyMap, k1, [seq |-> 1, value |-> Some(1)]))),
                            <<2, ms>>, SstFile(MapPut(EmptyMap, k2, [seq |-> 2, value |-> v])))],
                Call("close", 0, 0, "none"))
    /\ unit = [kind |-> "none"]

\* the owner configures the trigger right after opening, before any other call
Configured == up /\ last.op # "open"

\* the Engine value is dropped or the process killed only when a reopen follows
Stoppable == Configured /\ hist.incidents < MaxIncidents

SetL0CompactionTrigger ==
    /\ up
    /\ last.op = "open"
    /\ \E t \in 0..3 : eng' = [eng EXCEPT !.l0_compaction_trigger = t]
    /\ last' = Call("set_l0_compaction_trigger", 0, 0, "none")
    /\ UNCHANGED <<disk, up, now, hist, unit>>

\* a set or del returned r: the state it leaves and what the caller was told.
\* R: whether the caller makes calls that are rejected
MutationReturns(r, op, key, value, told, c, fail, R) ==
    /\ Rejected(r) \/ hist.mutations < MaxMutations
    /\ Rejected(r) => R /\ c = <<0, 0>> /\ fail = "none"
    /\ Fired(fail, r)
    /\ eng' = r.eng
    /\ disk' = r.disk
    /\ now' = r.now
    /\ last' = Call(op, key, value, r.err)
    /\ hist' = Wrote(Faulted(Told(hist, r, key, op, told), fail), value)

\* a force_flush or compact returned r; one with nothing to do is not recorded
MaintenanceReturns(r, op, noop, fail) ==
    /\ Fired(fail, r)
    /\ eng' = r.eng
    /\ disk' = r.disk
    /\ now' = r.now
    /\ last' = IF noop THEN last ELSE Call(op, 0, 0, r.err)
    /\ hist' = Faulted(hist, fail)

\* KS, VS: the keys and values the caller passes; FS: the I/O failures that
\* may strike
SetCall(KS, VS, R, FS) ==
    /\ Configured
    /\ \E key \in KS, value \in VS, c \in ClockReads, fail \in FS :
        /\ FirstUse(value)
        /\ MutationReturns(Set(eng, disk, key, value, now, c[1], c[2], fail),
                           "set", key, value, Some(value), c, fail, R)
    /\ UNCHANGED <<up, unit>>

DelCall(KS, R, FS) ==
    /\ Configured
    /\ \E key \in KS, c \in ClockReads, fail \in FS :
        MutationReturns(Del(eng, disk, key, now, c[1], c[2], fail),
                        "del", key, 0, None, c, fail, R)
    /\ UNCHANGED <<up, unit>>

ForceFlushCall(FS) ==
    /\ Configured
    /\ \E c \in ClockReads, fail \in FS :
        MaintenanceReturns(ForceFlush(eng, disk, now, c[1], c[2], fail),
                           "force_flush", MemIsEmpty(eng.mem), fail)
    /\ UNCHANGED <<up, unit>>

CompactCall(FS) ==
    /\ Configured
    /\ \E c \in ClockReads, fail \in FS :
        /\ c[2] = 0
        /\ MaintenanceReturns(Compact(eng, disk, now, c[1], fail),
                              "compact", Len(eng.l0_sstables) + Len(eng.l1_sstables) <= 1, fail)
    /\ UNCHANGED <<up, unit>>

\* drop returned, its flush having ended as r
Dropped(r, fail) ==
    /\ Fired(fail, r)
    /\ disk' = r.disk
    /\ now' = r.now
    /\ last' = Call("close", 0, 0, r.err)

\* the Engine value is dropped: best-effort flush, its result ignored
Close ==
    /\ Stoppable
    /\ \E c \in ClockReads, fail \in Fails :
        Dropped(Drop(eng, disk, now, c[1], c[2], fail), fail)
    /\ eng' = NoEngine
    /\ up' = FALSE
    /\ hist' = Stopped(hist)
    /\ UNCHANGED unit

\* the process is killed while idle
Kill ==
    /\ Stoppable
    /\ eng' = NoEngine
    /\ up' = FALSE
    /\ last' = Killed("kill", last.key, last.value,
                       IF last.op \in {"set", "del"} /\ last.err = "none" THEN last.op ELSE "idle")
    /\ hist' = Stopped(hist)
    /\ UNCHANGED <<disk, now, unit>>

\* the process is killed inside a call, between two of its steps
KillInSet ==
    /\ Stoppable
    /\ hist.mutations < MaxMutations
    /\ \E key \in Keys, value \in Vals, c \in ClockReads :
        \E p \in Set(eng, disk, key, value, now, c[1], c[2], "none").points
                    \cup TornPoints(Set(eng, disk, key, value, now, 0, 0, "none"), disk,
                                    WalPut(eng.seq + 1, key, value), now) :
            /\ FirstUse(value)
            /\ disk' = p.disk
            /\ now' = p.now
            /\ last' = Killed("set", key, value, p.at)
            /\ hist' = [Stopped(Wrote(Unacked(hist, key, Some(value)), value))
                          EXCEPT !.mutations = @ + 1]
    /\ eng' = NoEngine
    /\ up' = FALSE
    /\ UNCHANGED unit

KillInDel ==
    /\ Stoppable
    /\ hist.mutations < MaxMutations
    /\ \E key \in Keys, c \in ClockReads :
        \E p \in Del(eng, disk, key, now, c[1], c[2], "none").points
                    \cup TornPoints(Del(eng, disk, key, now, 0, 0, "none"), disk,
                                    WalDel(eng.seq + 1, key), now) :
            /\ disk' = p.disk
            /\ now' = p.now
            /\ last' = Killed("del", key, 0, p.at)
            /\ hist' = [Stopped(Unacked(hist, key, None)) EXCEPT !.mutations = @ + 1]
    /\ eng' = NoEngine
    /\ up' = FALSE
    /\ UNCHANGED unit

KillInForceFlush ==
    /\ Stoppable
    /\ \E c \in ClockReads :
        \E p \in ForceFlush(eng, disk, now, c[1], c[2], "none").points :
            /\ disk' = p.disk
            /\ now' = p.now
            /\ last' = Killed("force_flush", 0, 0, p.at)
    /\ eng' = NoEngine
    /\ up' = FALSE
    /\ hist' = Stopped(hist)
    /\ UNCHANGED unit

KillInCompact ==
    /\ Stoppable
    /\ \E c \in ClockReads :
        \E p \in Compact(eng, disk, now, c[1], "none").points :
            /\ c[2] = 0
            /\ disk' = p.disk
            /\ now' = p.now
            /\ last' = Killed("compact", 0, 0, p.at)
    /\ eng' = NoEngine
    /\ up' = FALSE
    /\ hist' = Stopped(hist)
    /\ UNCHANGED unit

KillInClose ==
    /\ Stoppable
    /\ \E c \in ClockReads :
        \E p \in Drop(eng, disk, now, c[1], c[2], "none").points :
            /\ disk' = p.disk
            /\ now' = p.now
            /\ last' = Killed("close", 0, 0, p.at)
    /\ eng' = NoEngine
    /\ up' = FALSE
    /\ hist' = Stopped(hist)
    /\ UNCHANGED unit

\* Engine::new returned r; the owner does not retry an open that failed
Opened(r) ==
    /\ eng' = r.eng
    /\ disk' = r.disk
    /\ up' = (r.err = "none")
    /\ last' = Call("open", 0, 0, r.err)

Reopen ==
    /\ ~up
    /\ last.op # "open"
    /\ Opened(EngineNew(disk, eng.flush_threshold, eng.wal_sync))
    /\ UNCHANGED <<now, hist, unit>>

Next ==
    \/ SetL0CompactionTrigger
    \/ SetCall(Keys, Vals, FALSE, FailsNow)
    \/ DelCall(Keys, FALSE, FailsNow)
    \/ ForceFlushCall(FailsNow)
    \/ CompactCall(FailsNow)
    \/ Close
    \/ Kill
    \/ KillInSet
    \/ KillInDel
    \/ KillInForceFlush
    \/ KillInCompact
    \/ KillInClose
    \/ Reopen

Spec == Init /\ [][Next]_vars

\* a single lifetime without failures in which the caller passes any
\* flush_threshold, also passes invalid keys and values, and keeps calling at
\* seq = u64::MAX
SpecInputs ==
    /\ \E ft \in {0, 1, 3} : Fresh(ft, FreshDisk, Call("open", 0, 0, "none"))
    /\ unit = [kind |-> "none"]
    /\ [][\/ SetL0CompactionTrigger
               \/ SetCall(0..BigKey, 1..BigVal, TRUE, {"none"})
               \/ DelCall(0..BigKey, TRUE, {"none"})
               \/ ForceFlushCall({"none"})
               \/ CompactCall({"none"})]_vars

\* a single owner without failures on a directory that has no manifest yet
SpecPreManifest ==
    InitPreManifest /\ [][\/ Reopen
                          \/ SetL0CompactionTrigger
                          \/ SetCall(Keys, Vals, FALSE, {"none"})
                          \/ DelCall(Keys, FALSE, {"none"})
                          \/ ForceFlushCall({"none"})
                          \/ CompactCall({"none"})
                          \/ Close]_vars

-----------------------------------------------------------------------------
(* A MergeIterator driven on its own over any list of readers *)

MaxReaders == 3
MaxMergeSeq == 2

\* the readers: up to MaxReaders of them, each over any entries for any keys
MergeInit ==
    /\ Fresh(1, FreshDisk, Call("open", 0, 0, "none"))
    /\ \E rs \in UNION {[1..n -> {ReaderOpen(<<0, 0>>, SstFile(m)) :
                                    m \in UNION {[ks -> {[seq |-> q, value |-> v] :
                                                           q \in 1..MaxMergeSeq,
                                                           v \in {None, Some(1)}}] :
                                                 ks \in SUBSET Keys}}] :
                        n \in 0..MaxReaders} :
          unit = [kind |-> "merge", readers |-> rs, it |-> MergeNew(rs), out |-> <<>>,
                  done |-> FALSE, err |-> "none"]

\* one call of next_entry by the consumer, who stops at None and at an error
MergeNextEntry ==
    /\ unit.kind = "merge"
    /\ ~unit.done
    /\ LET r == next_entry(unit.it)
       IN  unit' = [unit EXCEPT !.it = r.it,
                                !.out = IF r.item = None THEN @ ELSE Append(@, r.item[1]),
                                !.done = r.item = None,
                                !.err = r.err]
    /\ UNCHANGED <<eng, disk, up, now, last, hist>>

SpecMerge == MergeInit /\ [][MergeNextEntry]_vars

\* the readers of a merge one of whose records cannot be read: the file
\* changed after the reader indexed it, or the read fails
MergeFailingInit ==
    /\ Fresh(1, FreshDisk, Call("open", 0, 0, "none"))
    /\ \E rs \in UNION {[1..n -> {ReaderOpen(<<0, 0>>, SstFile(m)) :
                                    m \in UNION {[ks -> {[seq |-> q, value |-> v] :
                                                           q \in 1..MaxMergeSeq,
                                                           v \in {None, Some(1)}}] :
                                                 ks \in SUBSET Keys}}] :
                        n \in 1..MaxReaders} :
          \E i \in 1..Len(rs) :
             \E k \in DOMAIN rs[i].entries :
                unit = [kind |-> "merge", readers |-> rs,
                        it |-> [MergeNew(rs) EXCEPT !.bad = {<<k, i>>}],
                        out |-> <<>>, done |-> FALSE, err |-> "none"]

SpecMergeFailing == MergeFailingInit /\ [][MergeNextEntry]_vars

-----------------------------------------------------------------------------
(* A WAL file driven on its own: a writer that appends, is dropped, killed    *)
(* inside an append and opened again, frames written by other hands, and a    *)
(* byte damaged on the disk                                                   *)

MaxFrames == 3

\* the records an append can carry: the engine numbers them as it goes
WalRecords ==
    {WalPut(Len(unit.frames) + 1, k, 1) : k \in Keys}
        \cup {WalDel(Len(unit.frames) + 1, k) : k \in Keys}

\* frames: the whole frames of the file in order, each with its first byte,
\* its body and the record its append acknowledged (None for a foreign frame);
\* torn: how many appends a kill interrupted; tail: the last of them left its
\* bytes at the end of the file; damaged: the byte changed on disk, or 0
WalInit ==
    /\ Fresh(1, FreshDisk, Call("open", 0, 0, "none"))
    /\ unit = [kind |-> "wal", file |-> <<>>, writer |-> TRUE, frames |-> <<>>,
               torn |-> 0, tail |-> FALSE, damaged |-> 0]

Intact == unit.kind = "wal" /\ unit.damaged = 0

\* WalWriter::append returns Ok
WalAppendOk ==
    /\ Intact
    /\ unit.writer
    /\ Len(unit.frames) < MaxFrames
    /\ \E rec \in WalRecords :
          unit' = [unit EXCEPT !.file = @ \o Frame(rec),
                               !.frames = Append(@, [at |-> Len(unit.file) + 1,
                                                     body |-> Body(rec),
                                                     rec |-> Some(rec)]),
                               !.tail = FALSE]
    /\ UNCHANGED <<eng, disk, up, now, last, hist>>

\* the process is killed inside the write_all of an append
WalKilledInAppend ==
    /\ Intact
    /\ unit.writer
    /\ unit.torn < MaxIncidents
    /\ \E rec \in WalRecords, n \in 1..(Len(Frame(WalPut(1, 1, 1))) - 1) :
          /\ n < Len(Frame(rec))
          /\ unit' = [unit EXCEPT !.file = @ \o SubSeq(Frame(rec), 1, n),
                                   !.writer = FALSE,
                                   !.torn = @ + 1,
                                   !.tail = TRUE]
    /\ UNCHANGED <<eng, disk, up, now, last, hist>>

\* the writer is dropped
WalWriterDropped ==
    /\ Intact
    /\ unit.writer
    /\ unit' = [unit EXCEPT !.writer = FALSE]
    /\ UNCHANGED <<eng, disk, up, now, last, hist>>

\* WalWriter::create on the file as it is: append mode, nothing truncated
WalWriterCreate ==
    /\ Intact
    /\ ~unit.writer
    /\ unit' = [unit EXCEPT !.writer = TRUE]
    /\ UNCHANGED <<eng, disk, up, now, last, hist>>

\* a frame with a correct CRC that no WalWriter wrote reaches the file: its
\* body has an op code of 2, a key_len above the body length, a key_len within
\* the body length that runs past its end, the same two for val_len, or ends
\* inside seq
WalForeignFrame ==
    /\ Intact
    /\ unit.torn = 0
    /\ Len(unit.frames) < MaxFrames
    /\ \A i \in 1..Len(unit.frames) : unit.frames[i].rec # None
    /\ \E body \in {LE(1) \o <<2>> \o LE(1) \o <<1>>,
                     LE(1) \o <<1>> \o LE(7) \o <<1>>,
                     LE(1) \o <<1>> \o LE(2) \o <<1>>,
                     LE(1) \o <<0>> \o LE(1) \o <<1>> \o LE(10) \o <<1>>,
                     LE(1) \o <<0>> \o LE(1) \o <<1>> \o LE(2) \o <<1>>,
                     <<1>>} :
          unit' = [unit EXCEPT !.file = @ \o FrameOf(body),
                               !.frames = Append(@, [at |-> Len(unit.file) + 1,
                                                     body |-> body,
                                                     rec |-> None])]
    /\ UNCHANGED <<eng, disk, up, now, last, hist>>

\* one byte of the file changes on disk
WalByteDamaged ==
    /\ Intact
    /\ unit.torn = 0
    /\ \A i \in 1..Len(unit.frames) : unit.frames[i].rec # None
    /\ \E i \in 1..Len(unit.file), x \in {1, Byte - 1} :
          unit' = [unit EXCEPT !.file[i] = (@ + x) % Byte, !.damaged = i]
    /\ UNCHANGED <<eng, disk, up, now, last, hist>>

SpecWal ==
    WalInit /\ [][\/ WalAppendOk
                  \/ WalKilledInAppend
                  \/ WalWriterDropped
                  \/ WalWriterCreate
                  \/ WalForeignFrame
                  \/ WalByteDamaged]_vars

-----------------------------------------------------------------------------
(* An SSTable file written from a memtable, opened and read, byte by byte *)

\* The u32 lengths and the magic are four bytes as in the file; the u64 fields
\* (seq, offsets, num_bits), the u32 num_hashes and the CRC-32 are IntWidth
\* bytes; the FNV-1a hashes are 16 bits wide.  An over-long key or value is
\* written with its true length and one byte for its content, which no read
\* gets to.
MAX_KEY_BYTES == 65536
MAX_VALUE_BYTES == 10485760
SSTABLE_MAGIC_V1 == 1397969969
SSTABLE_MAGIC_V2 == 1397969970
SSTABLE_MAGIC_V3 == 1397969971
MAX_BLOOM_BYTES == 134217728

LE32(n) == LE(n % 65536) \o LE(n \div 65536)
ReadInt32(b, p) == ReadInt(b, p) + 65536 * ReadInt(b, p + 2)

RECURSIVE Xor(_, _)
Xor(a, b) ==
    IF a = 0 THEN b ELSE IF b = 0 THEN a
    ELSE 2 * Xor(a \div 2, b \div 2) + ((a + b) % 2)

\* hash ^= byte; hash = hash.wrapping_mul(FNV_PRIME), on the low 16 bits
RECURSIVE fnv1a_64(_, _)
fnv1a_64(data, basis) ==
    IF data = <<>> THEN basis
    ELSE fnv1a_64(Tail(data), (Xor(basis, Head(data)) * 435) % 65536)

\* h1.wrapping_add(i.wrapping_mul(h2)) % num_bits, h1 and h2 from hash_pair
get_bit_index(bf, key, i) ==
    ((fnv1a_64(key, 8997) + i * fnv1a_64(key, 2709)) % 65536) % bf.num_bits

\* BloomFilter::new(expected_items, 0.01): m = ceil(-n ln p / (ln 2)^2), at
\* least 8, and k = ceil((m / n) ln 2), at least 1
BloomNew(n) ==
    LET m == Max((n * 95851 + 9999) \div 10000, 8)
    IN  [bits |-> [j \in 1..((m + 7) \div 8) |-> 0],
         num_bits |-> m,
         num_hashes |-> Max((m * 6931 + n * 10000 - 1) \div (n * 10000), 1)]

get_bit(bf, idx) == (bf.bits[idx \div 8 + 1] \div 2 ^ (idx % 8)) % 2 = 1

\* insert: set_bit for the hashes i, i + 1, .. num_hashes - 1
RECURSIVE BloomInsertFrom(_, _, _)
BloomInsertFrom(bf, key, i) ==
    IF i >= bf.num_hashes THEN bf
    ELSE BloomInsertFrom(
            IF get_bit(bf, get_bit_index(bf, key, i)) THEN bf
            ELSE [bf EXCEPT !.bits[get_bit_index(bf, key, i) \div 8 + 1] =
                                @ + 2 ^ (get_bit_index(bf, key, i) % 8)],
            key, i + 1)

may_contain(bf, key) ==
    \A i \in 0..(bf.num_hashes - 1) : get_bit(bf, get_bit_index(bf, key, i))

\* a serialization that counts one hash too many
BloomWriteOneMore(bf) ==
    LE(bf.num_bits) \o LE(bf.num_hashes + 1) \o LE32(Len(bf.bits)) \o bf.bits

\* write_to: num_bits, num_hashes, bits_len, bits
BloomWriteTo(bf) ==
    LE(bf.num_bits) \o LE(bf.num_hashes) \o LE32(Len(bf.bits)) \o bf.bits

\* read_from at byte p
BloomReadFrom(b, p) ==
    [num_bits |-> ReadInt(b, p),
     num_hashes |-> ReadInt(b, p + IntWidth),
     bits |-> SubSeq(b, p + 2 * IntWidth + 4,
                     p + 2 * IntWidth + 3 + ReadInt32(b, p + 2 * IntWidth))]

\* record_buf: key_len, key, seq, present, and for a value val_len, val
RecordBuf(key, entry) ==
    LE32(KeyLen(key)) \o KeyBytes(key) \o LE(entry.seq)
        \o (IF entry.value = None THEN <<0>>
            ELSE <<1>> \o LE32(ValLen(entry.value[1])) \o <<entry.value[1]>>)

\* the loop of write_internal over the keys in ascending order: the DATA
\* section, the bytes of the INDEX section, the bloom filter and max_seq
RECURSIVE WriteData(_, _, _)
WriteData(entries, keys, acc) ==
    IF keys = <<>> THEN acc
    ELSE WriteData(entries, Tail(keys),
            [data |-> acc.data \o LE(Crc32(RecordBuf(Head(keys), entries[Head(keys)])))
                        \o RecordBuf(Head(keys), entries[Head(keys)]),
             index |-> acc.index \o LE32(KeyLen(Head(keys))) \o KeyBytes(Head(keys))
                        \o LE(Len(acc.data)),
             bloom |-> BloomInsertFrom(acc.bloom, KeyBytes(Head(keys)), 0),
             max_seq |-> Max(acc.max_seq, entries[Head(keys)].seq)])

\* SSTableWriter::write_from_memtable: the refusal, or the bytes of the file
\* write_internal leaves at path once it renamed the temporary file: DATA,
\* BLOOM, INDEX and the footer max_seq, bloom_offset, index_offset, magic
write_from_memtable(m) ==
    LET w == WriteData(m.map, SortedKeys(DOMAIN m.map),
                       [data |-> <<>>, index |-> <<>>,
                        bloom |-> BloomNew(Cardinality(DOMAIN m.map)), max_seq |-> 0])
    IN  IF MemIsEmpty(m) THEN [err |-> "empty", file |-> <<>>]
        ELSE [err |-> "none",
              file |-> w.data \o BloomWriteTo(w.bloom) \o w.index
                        \o LE(w.max_seq) \o LE(Len(w.data))
                        \o LE(Len(w.data) + Len(BloomWriteTo(w.bloom)))
                        \o LE32(SSTABLE_MAGIC_V3)]

\* the footer of a file of at least FOOTER_BYTES_V1 bytes: its version (0 for
\* an unknown magic), its size and its fields, at offset 0 those it lacks
read_footer_versioned(b) ==
    LET magic == ReadInt32(b, Len(b) - 3)
        v == IF magic = SSTABLE_MAGIC_V3 THEN 3 ELSE IF magic = SSTABLE_MAGIC_V2 THEN 2
             ELSE IF magic = SSTABLE_MAGIC_V1 THEN 1 ELSE 0
        size == v * IntWidth + 4
    IN  IF v = 0 \/ Len(b) < size
        THEN [version |-> 0, size |-> 0, max_seq |-> 0, bloom_offset |-> 0, index_offset |-> 0]
        ELSE [version |-> v,
              size |-> size,
              max_seq |-> IF v = 3 THEN ReadInt(b, Len(b) - size + 1) ELSE 0,
              bloom_offset |-> IF v >= 2 THEN ReadInt(b, Len(b) - 3 - 2 * IntWidth) ELSE 0,
              index_offset |-> ReadInt(b, Len(b) - 3 - IntWidth)]

\* the loop of open over the INDEX section, from offset p to the footer
RECURSIVE ReadIndex(_, _, _, _)
ReadIndex(b, p, end, index) ==
    IF p >= end THEN [err |-> "none", index |-> index]
    ELSE IF ReadInt32(b, p + 1) > MAX_KEY_BYTES THEN [err |-> "corrupt", index |-> index]
    ELSE ReadIndex(b, p + 4 + ReadInt32(b, p + 1) + IntWidth, end,
                   MapPut(index, KeyOfBytes(SubSeq(b, p + 5, p + 4 + ReadInt32(b, p + 1))),
                          ReadInt(b, p + 5 + ReadInt32(b, p + 1))))

\* SSTableReader::open on the bytes of a file: the reader, which keeps the
\* file open, or the error
SSTableReaderOpen(b, footer) ==
    LET none == [err |-> "invalid", index |-> <<>>, bloom |-> None, footer |-> footer,
                 file |-> b]
    IN  IF Len(b) < IntWidth + 4 \/ footer.version = 0 \/ footer.index_offset >= Len(b)
        THEN none
        ELSE IF footer.version >= 2
                /\ ReadInt32(b, footer.bloom_offset + 2 * IntWidth + 1) > MAX_BLOOM_BYTES
        THEN none
        ELSE [none EXCEPT
                !.err = ReadIndex(b, footer.index_offset, Len(b) - footer.size, <<>>).err,
                !.index = ReadIndex(b, footer.index_offset, Len(b) - footer.size, <<>>).index,
                !.bloom = IF footer.version >= 2
                          THEN Some(BloomReadFrom(b, footer.bloom_offset + 1)) ELSE None]

\* SSTableReader::get: the entry, None for absence, or the error
SSTableReaderGet(r, key) ==
    LET crc     == IF r.footer.version = 3 THEN IntWidth ELSE 0
        at      == (IF key \in DOMAIN r.index THEN r.index[key] ELSE 0) + crc
        key_len == ReadInt32(r.file, at + 1)
        seq_at  == at + 4 + key_len + 1
        present == r.file[seq_at + IntWidth]
        val_len == ReadInt32(r.file, seq_at + IntWidth + 1)
        end     == IF present = 1 THEN seq_at + IntWidth + 4 + val_len ELSE seq_at + IntWidth
        val     == SubSeq(r.file, seq_at + IntWidth + 5, end)
    IN  IF r.bloom # None /\ ~may_contain(r.bloom[1], KeyBytes(key))
        THEN [err |-> "none", entry |-> None]
        ELSE IF key \notin DOMAIN r.index THEN [err |-> "none", entry |-> None]
        ELSE IF key_len > MAX_KEY_BYTES THEN [err |-> "corrupt", entry |-> None]
        ELSE IF SubSeq(r.file, at + 5, at + 4 + key_len) # KeyBytes(key)
        THEN [err |-> "mismatch", entry |-> None]
        ELSE IF present = 1 /\ val_len > MAX_VALUE_BYTES THEN [err |-> "corrupt", entry |-> None]
        ELSE IF crc # 0 /\ Crc32(SubSeq(r.file, at + 1, end)) # ReadInt(r.file, at - crc + 1)
        THEN [err |-> "crc", entry |-> None]
        ELSE [err |-> "none",
              entry |-> Some([seq |-> ReadInt(r.file, seq_at),
                              value |-> IF present = 1 THEN Some(val[1]) ELSE None])]

\* the memtable: any entries under any keys, the empty and the over-long one
\* among them
SstInit ==
    /\ Fresh(1, FreshDisk, Call("open", 0, 0, "none"))
    /\ \E m \in UNION {[ks -> {[seq |-> q, value |-> v] :
                                  q \in 1..MaxMergeSeq, v \in {None, Some(1), Some(BigVal)}}] :
                       ks \in SUBSET (EmptyKey..BigKey)} :
          unit = [kind |-> "sst", stage |-> "mem", mem |-> [map |-> m, approx_size |-> 0],
                  file |-> None, tmp |-> None, reader |-> None, got |-> None]

\* a file name with only the .sst extension, in place of tmp_path
SstPath == "file"

\* path.with_extension("sst.tmp"): the field of unit that stands for the
\* directory entry <name>.sst.tmp, as file stands for <name>.sst
tmp_path == "tmp"

\* write_from_memtable returns: the refusal, or every byte written to tmp_path,
\* flushed and synced, and then rename(&tmp_path, path)
SstWrite ==
    /\ unit.kind = "sst"
    /\ unit.stage = "mem"
    /\ unit' = IF MemIsEmpty(unit.mem)
               THEN [unit EXCEPT !.stage = "refused"]
               ELSE [[unit EXCEPT ![tmp_path] = None]
                        EXCEPT !.file = Some(write_from_memtable(unit.mem).file),
                               !.stage = "file"]
    /\ UNCHANGED <<eng, disk, up, now, last, hist>>

\* the process is killed inside write_internal, the first n bytes of the file
\* having reached the file opened at tmp_path: here at most MaxTorn bytes, or
\* all but at most MaxTorn
SstKilledInWrite ==
    /\ unit.kind = "sst"
    /\ unit.stage = "mem"
    /\ ~MemIsEmpty(unit.mem)
    /\ \E w \in {write_from_memtable(unit.mem)} :
          \E n \in (0..MaxTorn) \cup ((Len(w.file) - MaxTorn)..Len(w.file)) :
              unit' = [unit EXCEPT ![tmp_path] = Some(SubSeq(w.file, 1, n)),
                                   !.stage = "killed"]
    /\ UNCHANGED <<eng, disk, up, now, last, hist>>

\* the next Engine::new: cleanup_tmp_files removes every name ending in .sst.tmp
SstCleanupTmp ==
    /\ unit.kind = "sst"
    /\ unit.stage = "killed"
    /\ unit' = [unit EXCEPT !.tmp = None, !.stage = "cleaned"]
    /\ UNCHANGED <<eng, disk, up, now, last, hist>>

SstOpen ==
    /\ unit.kind = "sst"
    /\ unit.stage = "file"
    /\ unit' = [unit EXCEPT
                  !.reader = Some(SSTableReaderOpen(unit.file[1],
                                                    read_footer_versioned(unit.file[1]))),
                  !.stage = "open"]
    /\ UNCHANGED <<eng, disk, up, now, last, hist>>

SstGet ==
    /\ unit.kind = "sst"
    /\ unit.stage = "open"
    /\ unit.reader[1].err = "none"
    /\ \E key \in EmptyKey..BigKey :
          unit' = [unit EXCEPT !.got = Some(<<key, SSTableReaderGet(unit.reader[1], key)>>)]
    /\ UNCHANGED <<eng, disk, up, now, last, hist>>

SpecSst ==
    SstInit /\ [][SstWrite \/ SstKilledInWrite \/ SstCleanupTmp \/ SstOpen \/ SstGet]_vars

-----------------------------------------------------------------------------
(* A Memtable driven on its own: any key, value and seq, in any order *)

MaxLog == 3

\* mem: the memtable; prev: the memtable before the last call; rec: the last
\* call; log: the puts and deletes made since the memtable was last empty;
\* wal: the file a WalWriter holds after appending the records of log
MemInit ==
    /\ Fresh(1, FreshDisk, Call("open", 0, 0, "none"))
    /\ unit = [kind |-> "mem", mem |-> MemNew, prev |-> MemNew, log |-> <<>>,
               wal |-> <<>>,
               rec |-> [op |-> "new", key |-> 0, value |-> 0, seq |-> 0]]

MemPutCall ==
    /\ unit.kind = "mem"
    /\ Len(unit.log) < MaxLog
    /\ \E key \in EmptyKey..NKeys, value \in 0..NVals, seq \in 1..U64Max :
          unit' = [unit EXCEPT !.mem = MemPut(@, key, value, seq),
                               !.prev = unit.mem,
                               !.log = Append(@, WalPut(seq, key, value)),
                               !.wal = @ \o Frame(WalPut(seq, key, value)),
                               !.rec = [op |-> "put", key |-> key, value |-> value, seq |-> seq]]
    /\ UNCHANGED <<eng, disk, up, now, last, hist>>

MemDeleteCall ==
    /\ unit.kind = "mem"
    /\ Len(unit.log) < MaxLog
    /\ \E key \in EmptyKey..NKeys, seq \in 1..U64Max :
          unit' = [unit EXCEPT !.mem = MemDelete(@, key, seq),
                               !.prev = unit.mem,
                               !.log = Append(@, WalDel(seq, key)),
                               !.wal = @ \o Frame(WalDel(seq, key)),
                               !.rec = [op |-> "delete", key |-> key, value |-> 0, seq |-> seq]]
    /\ UNCHANGED <<eng, disk, up, now, last, hist>>

MemClearCall ==
    /\ unit.kind = "mem"
    /\ unit.rec.op \notin {"new", "clear"}
    /\ unit' = [unit EXCEPT !.mem = MemClear(@),
                            !.prev = unit.mem,
                            !.log = <<>>,
                            !.wal = <<>>,
                            !.rec = [op |-> "clear", key |-> 0, value |-> 0, seq |-> 0]]
    /\ UNCHANGED <<eng, disk, up, now, last, hist>>

\* the bytes approx_size is documented to count: key and live value of
\* every entry among ks
RECURSIVE EntryBytes(_, _)
EntryBytes(map, ks) ==
    IF ks = {} THEN 0
    ELSE LET k == CHOOSE x \in ks : TRUE
         IN  KeyLen(k) + OptLen(map[k].value) + EntryBytes(map, ks \ {k})

SpecMem == MemInit /\ [][MemPutCall \/ MemDeleteCall \/ MemClearCall]_vars

-----------------------------------------------------------------------------
(* The MANIFEST file as text: a Manifest driven on its own *)

MaxEntries == 3
MaxStem == 2

\* the characters of a file name before its extension, and the names
\* Engine::new and flush hand to add: a stem and the extension, which is one
\* element here
FileNames ==
    {Append(stem, ".sst") :
        stem \in UNION {[1..n -> {"a", " ", ":", "\n"}] : n \in 1..MaxStem}}

\* write_manifest_contents after its two comment lines: one line per entry,
\* "L0:" or "L1:" and the name
RECURSIVE write_manifest_contents(_, _, _)
write_manifest_contents(entries, i, text) ==
    IF i > Len(entries) THEN text
    ELSE write_manifest_contents(entries, i + 1,
            text \o <<"L", IF entries[i].level = 0 THEN "0" ELSE "1", ":">>
                 \o entries[i].filename \o <<"\n">>)

\* BufRead::lines: the text between line breaks; a text that ends with a line
\* break has no empty last line
RECURSIVE Lines(_, _, _)
Lines(text, i, cur) ==
    IF i > Len(text) THEN (IF cur = <<>> THEN <<>> ELSE <<cur>>)
    ELSE IF text[i] = "\n" THEN <<cur>> \o Lines(text, i + 1, <<>>)
    ELSE Lines(text, i + 1, Append(cur, text[i]))

\* str::trim
Trim(line) ==
    LET inked == {i \in 1..Len(line) : line[i] \notin {" ", "\n"}}
    IN  IF inked = {} THEN <<>>
        ELSE SubSeq(line, CHOOSE i \in inked : \A j \in inked : i <= j, SetMax(inked))

\* a split at the last occurrence of the delimiter
SplitAtLast(line, c) ==
    LET at == {i \in 1..Len(line) : line[i] = c}
    IN  IF at = {} THEN None
        ELSE Some(<<SubSeq(line, 1, SetMax(at) - 1), SubSeq(line, SetMax(at) + 1, Len(line))>>)

\* str::split_once: the parts before and after the first occurrence
split_once(line, c) ==
    LET at == {i \in 1..Len(line) : line[i] = c}
        p  == CHOOSE i \in at : \A j \in at : i <= j
    IN  IF at = {} THEN None
        ELSE Some(<<SubSeq(line, 1, p - 1), SubSeq(line, p + 1, Len(line))>>)

\* the loop of load_or_create over the lines of the file
RECURSIVE ParseLines(_, _, _)
ParseLines(lines, i, entries) ==
    IF i > Len(lines) THEN [entries |-> entries, err |-> "none"]
    ELSE LET trimmed == Trim(lines[i])
             parts   == split_once(trimmed, ":")
         IN  IF trimmed = <<>> \/ trimmed[1] = "#" THEN ParseLines(lines, i + 1, entries)
             ELSE IF parts = None THEN [entries |-> entries, err |-> "format"]
             ELSE IF parts[1][1] \notin {<<"L", "0">>, <<"L", "1">>}
             THEN [entries |-> entries, err |-> "level"]
             ELSE ParseLines(lines, i + 1,
                     Append(entries, [filename |-> parts[1][2],
                                      level |-> IF parts[1][1] = <<"L", "0">> THEN 0 ELSE 1]))

\* Manifest::load_or_create of a directory whose MANIFEST is file (None when
\* there is none)
load_or_create(file) ==
    IF file = None THEN [entries |-> <<>>, err |-> "none"]
    ELSE ParseLines(Lines(file[1], 1, <<>>), 1, <<>>)

\* entries: the Manifest in memory; added: the add calls made, in order;
\* file: the MANIFEST of the directory; loaded: what load_or_create returned
ManifestInit ==
    /\ Fresh(1, FreshDisk, Call("open", 0, 0, "none"))
    /\ unit = [kind |-> "manifest", stage |-> "mem", entries |-> load_or_create(None).entries,
               added |-> <<>>, file |-> None,
               loaded |-> [entries |-> <<>>, err |-> "none"]]

ManifestAddCall ==
    /\ unit.kind = "manifest"
    /\ unit.stage = "mem"
    /\ Len(unit.entries) < MaxEntries
    /\ \E filename \in FileNames, level \in {0, 1} :
          unit' = [unit EXCEPT !.entries = ManifestAdd(@, filename, level),
                               !.added = Append(@, [filename |-> filename, level |-> level])]
    /\ UNCHANGED <<eng, disk, up, now, last, hist>>

\* save: MANIFEST.tmp written and renamed over MANIFEST
ManifestSaveCall ==
    /\ unit.kind = "manifest"
    /\ unit.stage = "mem"
    /\ unit' = [unit EXCEPT !.file = Some(write_manifest_contents(unit.entries, 1,
                                              <<"#", " ", "M", "\n", "#", " ", "F", ":", "<", "\n">>)),
                            !.stage = "saved"]
    /\ UNCHANGED <<eng, disk, up, now, last, hist>>

ManifestLoadCall ==
    /\ unit.kind = "manifest"
    /\ unit.stage = "saved"
    /\ unit' = [unit EXCEPT !.loaded = load_or_create(unit.file), !.stage = "loaded"]
    /\ UNCHANGED <<eng, disk, up, now, last, hist>>

SpecManifest == ManifestInit /\ [][ManifestAddCall \/ ManifestSaveCall \/ ManifestLoadCall]_vars

-----------------------------------------------------------------------------
(* Threads that share one SSTableReader through &self *)

MaxGetters == 2

\* a reader opened on the file of a memtable that holds every key of Keys. pos
\* is the position of the one file handle, lock the thread holding the Mutex
\* around it (0: none), pc, key and res each thread's place in get, its
\* argument and its result; waited: a thread found the Mutex taken
GetsInit ==
    /\ Fresh(1, FreshDisk, Call("open", 0, 0, "none"))
    /\ \E m \in [Keys -> {[seq |-> q, value |-> v] :
                             q \in 1..MaxMergeSeq, v \in {None, Some(1), Some(2)}}] :
          \E w \in {write_from_memtable([map |-> m, approx_size |-> 0]).file} :
              unit = [kind |-> "gets", mem |-> m,
                      reader |-> SSTableReaderOpen(w, read_footer_versioned(w)),
                      pos |-> 0, lock |-> 0, waited |-> FALSE,
                      pc |-> [t \in 1..MaxGetters |-> "idle"],
                      key |-> [t \in 1..MaxGetters |-> EmptyKey],
                      res |-> [t \in 1..MaxGetters |-> [err |-> "none", entry |-> None]]]

\* a Mutex that lets every thread in
MutexOpen(u) == TRUE

\* self.file.lock() returns once no other thread holds the guard
MutexFree(u) == u.lock = 0

\* a thread calls get(key): the bloom filter and the index, read without the
\* Mutex, end the call for a key the file does not hold
GetCall ==
    /\ unit.kind = "gets"
    /\ \E t \in 1..MaxGetters, k \in EmptyKey..NKeys :
          /\ unit.pc[t] \in {"idle", "done"}
          /\ unit' = IF may_contain(unit.reader.bloom[1], KeyBytes(k)) /\ k \in DOMAIN unit.reader.index
                     THEN [unit EXCEPT !.pc[t] = "wait", !.key[t] = k,
                                       !.waited = @ \/ unit.lock # 0]
                     ELSE [unit EXCEPT !.pc[t] = "done", !.key[t] = k,
                                       !.res[t] = [err |-> "none", entry |-> None]]
    /\ UNCHANGED <<eng, disk, up, now, last, hist>>

\* the thread gets the guard and seeks to the offset the index gave
GetSeek ==
    /\ unit.kind = "gets"
    /\ MutexFree(unit)
    /\ \E t \in 1..MaxGetters :
          /\ unit.pc[t] = "wait"
          /\ unit' = [unit EXCEPT !.pc[t] = "sought", !.lock = t,
                                  !.pos = unit.reader.index[unit.key[t]]]
    /\ UNCHANGED <<eng, disk, up, now, last, hist>>

\* the thread reads the record at the position of the handle, checks it
\* against its key and returns, which drops the guard
GetRead ==
    /\ unit.kind = "gets"
    /\ \E t \in 1..MaxGetters :
          /\ unit.pc[t] = "sought"
          /\ unit' = [unit EXCEPT
                        !.pc[t] = "done",
                        !.lock = IF @ = t THEN 0 ELSE @,
                        !.res[t] = SSTableReaderGet(
                                      [unit.reader EXCEPT !.index[unit.key[t]] = unit.pos],
                                      unit.key[t])]
    /\ UNCHANGED <<eng, disk, up, now, last, hist>>

SpecGets == GetsInit /\ [][GetCall \/ GetSeek \/ GetRead]_vars

-----------------------------------------------------------------------------
(* Properties *)

\* the engine a reopen builds from the disk as it is now
Recovered == EngineNew(disk, eng.flush_threshold, eng.wal_sync).eng
Opens == EngineNew(disk, eng.flush_threshold, eng.wal_sync).err = "none"

\* what get returns to a caller who ignores the seq
ValueOf(g) == IF g = None THEN None ELSE Some(g[1][2])

\* the entries for a key in the memtable and in every L0 and L1 SSTable
LayerEntries(e, key) ==
    (IF key \in DOMAIN e.mem.map THEN {e.mem.map[key]} ELSE {})
        \cup {e.l0_sstables[i].entries[key] :
                i \in {j \in 1..Len(e.l0_sstables) : key \in DOMAIN e.l0_sstables[j].entries}}
        \cup {e.l1_sstables[i].entries[key] :
                i \in {j \in 1..Len(e.l1_sstables) : key \in DOMAIN e.l1_sstables[j].entries}}

Newest(e, key) == {x \in LayerEntries(e, key) : \A y \in LayerEntries(e, key) : y.seq <= x.seq}

\* the file names of each level
RECURSIVE ReaderNames(_)
ReaderNames(rs) == IF rs = <<>> THEN {} ELSE {Head(rs).name} \cup ReaderNames(Tail(rs))
Membership(e) == <<ReaderNames(e.l0_sstables), ReaderNames(e.l1_sstables)>>

\* C1: with wal_sync enabled, when the process is killed right after a set or
\* del returned Ok, which leaves the files as they are, the engine reopened on
\* the same files returns for that key the value set (absence after del).
C1_Durability ==
    (up /\ last.op \in {"set", "del"} /\ last.err = "none" /\ eng.wal_sync)
        => /\ Opens
           /\ ValueOf(Get(Recovered, last.key))
                = (IF last.op = "set" THEN Some(last.value) ELSE None)

\* C2: after a kill between any two steps of a flush, the reopened engine
\* returns for every key the value (or absence) of its last acknowledged
\* mutation, or that of the mutation the kill interrupted.
C2_FlushCrash ==
    (~up /\ last.at = "flush")
        => /\ Opens
           /\ \A k \in Keys :
                 ValueOf(Get(Recovered, k)) \in {hist.acked[k].value} \cup hist.pending[k]

C4_NoResurrection ==
    up => \A k \in Keys : hist.acked[k].st = "del" => Get(eng, k) = None

\* C5: on one engine instance every acknowledged mutation gets the seq of the
\* acknowledged mutation before it plus one.
C5_SeqPlusOne ==
    [][(up /\ up' /\ hist'.mutations # hist.mutations /\ last'.err = "none" /\ hist.prevOk # 0)
          => eng'.seq = hist.prevOk + 1]_vars

\* C6: a set or del that returns an error leaves seq as it was.
C6_SeqOnSuccessOnly ==
    [][(up /\ up' /\ last'.op \in {"set", "del"} /\ last'.err # "none"
            /\ (hist'.mutations # hist.mutations \/ last' # last))
          => eng'.seq = eng.seq]_vars

\* C7: a set whose key is empty or longer than MAX_KEY_SIZE or whose value is
\* longer than MAX_VALUE_SIZE, a del whose key is empty or too long, and any
\* set or del made while seq is at the top of its range, return an error and
\* leave the engine (seq, memtable, readers, manifest) and the disk (WAL,
\* SSTable files, MANIFEST) as they were.
C7_InvalidRejected ==
    up => \A key \in 0..BigKey, value \in 1..BigVal :
            LET r == Set(eng, disk, key, value, now, 0, 0, "none")
                q == Del(eng, disk, key, now, 0, 0, "none")
                badKey == key = EmptyKey \/ key = BigKey
                full == eng.seq = U64Max
            IN  /\ (badKey \/ value = BigVal \/ full)
                      => r.err # "none" /\ r.eng = eng /\ r.disk = disk
                /\ (badKey \/ full)
                      => q.err # "none" /\ q.eng = eng /\ q.disk = disk

\* a set has just been refused at the top of the seq range by an engine that
\* holds SSTables, after a set with an oversized value was possible too
C7_Witness ==
    /\ up
    /\ last.op = "set" /\ last.err = "overflow"
    /\ eng.seq = U64Max
    /\ Len(eng.l0_sstables) + Len(eng.l1_sstables) >= 1
    /\ disk.wal # <<>>

\* C8: after a close or a kill the reopened engine's seq is at least the seq
\* of every mutation acknowledged in any lifetime.
C8_SeqRecovered == (~up /\ last.op # "open") => Opens /\ Recovered.seq >= hist.maxAcked

\* C9: after a flush or compaction that returned Ok, with nothing left in the
\* memtable for the close to flush, closing and reopening gives each level
\* the files it had in memory.
C9_ManifestFidelity ==
    (up /\ last.op \in {"set", "del", "force_flush", "compact"} /\ last.err = "none"
        /\ MemIsEmpty(eng.mem))
        => Opens /\ Membership(Recovered) = Membership(eng)

\* C10: scan(a, b) returns pairs strictly ascending by key, each key within
\* [a, b) (an empty bound is no bound), and exactly the keys in range whose
\* highest-seq entry across memtable, L0 and L1 is a value, each with that value.
C10_ScanOrdered ==
    up => \A a \in 0..BigKey, b \in 0..BigKey :
            LET res == Scan(eng, a, b)
                want == {k \in Keys : /\ a = 0 \/ k >= a
                                      /\ b = 0 \/ k < b
                                      /\ LayerEntries(eng, k) # {}
                                      /\ \E x \in Newest(eng, k) : x.value # None}
            IN  /\ \A i \in 1..(Len(res) - 1) : res[i][1] < res[i + 1][1]
                /\ {res[i][1] : i \in 1..Len(res)} = want
                /\ \A i \in 1..Len(res) :
                      \E x \in Newest(eng, res[i][1]) : x.value = Some(res[i][2])

C10_Witness ==
    /\ up
    /\ Len(Scan(eng, 0, 0)) = 2
    /\ Len(Scan(eng, 1, 2)) = 1
    /\ \E k \in Keys : Cardinality(LayerEntries(eng, k)) >= 2
    /\ Scan(eng, 0, 0)[1][1] < Scan(eng, 0, 0)[2][1]

\* the entries the readers of a list hold for a key
EntriesFor(readers, key) ==
    {readers[i].entries[key] : i \in {j \in 1..Len(readers) : key \in DOMAIN readers[j].entries}}

\* C11: the stream a MergeIterator emits over any list of readers is strictly
\* ascending by key, never holds a key twice or a key of no reader, holds every
\* key of the union once the iterator is exhausted, and the entry emitted for
\* a key is an entry of highest seq among the readers' entries for that key;
\* the merged map compaction works with is that stream.
C11_MergeDedup ==
    unit.kind = "merge" =>
        LET out == unit.out
            rs == unit.readers
        IN  /\ \A i \in 1..(Len(out) - 1) : out[i][1] < out[i + 1][1]
            /\ \A i \in 1..Len(out) :
                  /\ out[i][2] \in EntriesFor(rs, out[i][1])
                  /\ \A x \in EntriesFor(rs, out[i][1]) : x.seq <= out[i][2].seq
            /\ unit.done =>
                  /\ {out[i][1] : i \in 1..Len(out)} = ReaderKeys(rs)
                  /\ \A i \in 1..Len(out) : MergeIterator(rs)[out[i][1]] = out[i][2]
                  /\ DOMAIN MergeIterator(rs) = ReaderKeys(rs)

\* three readers share a key with different seqs, the newest a tombstone in the
\* last reader, and the exhausted iterator emitted two keys
C11_Witness ==
    /\ unit.kind = "merge"
    /\ unit.done
    /\ Len(unit.readers) = 3
    /\ Len(unit.out) = 2
    /\ \E k \in Keys :
          /\ \A i \in 1..3 : k \in DOMAIN unit.readers[i].entries
          /\ unit.readers[1].entries[k].seq < unit.readers[3].entries[k].seq
          /\ unit.readers[3].entries[k].value = None
          /\ \E i \in 1..2 : unit.out[i] = <<k, unit.readers[3].entries[k]>>

\* the engine as flush leaves it before it looks at the compaction trigger
BeforeAutoCompact(c) ==
    Flush([eng EXCEPT !.l0_compaction_trigger = 0], disk, now, c[1], 0, "none")

\* the compaction that flush then runs
AutoCompact(f, c) ==
    Compact([f.eng EXCEPT !.l0_compaction_trigger = eng.l0_compaction_trigger],
            f.disk, f.now, c[2], "none")

\* get gives the same for every key on both engines
SameReads(a, b) == \A k \in Keys : Get(a, k) = Get(b, k)

CompactOutput(e) ==
    {k \in ReaderKeys(e.l0_sstables \o e.l1_sstables) :
        CompactKeeps(e.mem, k, MergeIterator(e.l0_sstables \o e.l1_sstables)[k])}

\* compact() of e is a merge of at least two SSTables that writes an entry
Merges(e) == Len(e.l0_sstables) + Len(e.l1_sstables) >= 2 /\ CompactOutput(e) # {}

\* r: no L0 reader, one L1 reader, a manifest of one L1 entry naming the
\* reader's file, in memory and saved, and that file alone in the directory
Compacted(r) ==
    /\ r.eng.l0_sstables = <<>>
    /\ Len(r.eng.l1_sstables) = 1
    /\ r.eng.manifest = <<[filename |-> r.eng.l1_sstables[1].name, level |-> 1]>>
    /\ r.disk.manifest = r.eng.manifest
    /\ DOMAIN r.disk.files = {r.eng.l1_sstables[1].name}

FlushNow(c) == Flush(eng, disk, now, c[1], c[2], "none")

\* the L0 count right after the flush's own steps reaches a trigger that is set
Triggering ==
    eng.l0_compaction_trigger # 0 /\ Len(eng.l0_sstables) + 1 >= eng.l0_compaction_trigger

Flushed(f) ==
    /\ f.eng.mem = [map |-> EmptyMap, approx_size |-> 0]
    /\ f.disk.wal = <<>>
    /\ Len(f.eng.l0_sstables) = Len(eng.l0_sstables) + 1
    /\ Tail(f.eng.l0_sstables) = eng.l0_sstables
    /\ f.eng.l0_sstables[1].entries = eng.mem.map
    /\ DOMAIN f.disk.files = DOMAIN disk.files \cup {f.eng.l0_sstables[1].name}
    /\ f.disk.files[f.eng.l0_sstables[1].name].entries = eng.mem.map
    /\ \A n \in DOMAIN disk.files \ {f.eng.l0_sstables[1].name} : f.disk.files[n] = disk.files[n]
    /\ f.disk.manifest = f.eng.manifest
    /\ l0_filenames(f.disk.manifest) # <<>>
    /\ l0_filenames(f.disk.manifest)[1] = f.eng.l0_sstables[1].name

\* C17: after a flush that returns Ok without triggering compaction the
\* memtable is empty with approx_size 0, the WAL file has length 0, exactly one
\* new SSTable holding exactly the memtable's entries before the flush,
\* tombstones included, is at the front of the in-memory L0 list, and the saved
\* manifest lists that file as its first L0 entry.
C17_FlushPostState ==
    (up /\ ~MemIsEmpty(eng.mem))
        => \A c \in ClockReads :
              (FlushNow(c).err = "none" /\ ~Triggering)
                  => Flushed(FlushNow(c))

\* a flush about to write a memtable of tombstones as a second L0 SSTable,
\* below the trigger, with the WAL still holding their records
C17_Witness ==
    /\ up
    /\ Cardinality(DOMAIN eng.mem.map) = 2
    /\ \A k \in DOMAIN eng.mem.map : eng.mem.map[k].value = None
    /\ Len(eng.l0_sstables) = 1
    /\ disk.wal # <<>>
    /\ ~Triggering
    /\ FlushNow(<<0, 0>>).err = "none"
    /\ Flushed(FlushNow(<<0, 0>>))
    /\ Len(l0_filenames(FlushNow(<<0, 0>>).disk.manifest)) = 2

\* C20: a compaction drops a merged tombstone from its output when the key is
\* not in the memtable and writes it to the new SSTable when the key is in the
\* memtable.
C20_TombstoneGC ==
    (up /\ Len(eng.l0_sstables) + Len(eng.l1_sstables) >= 2)
        => \A c \in ClockReads :
              Compact(eng, disk, now, c[1], "none").err = "none"
                  => \A k \in ReaderKeys(eng.l0_sstables \o eng.l1_sstables) :
                        MergeIterator(eng.l0_sstables \o eng.l1_sstables)[k].value = None
                            => LET out == Compact(eng, disk, now, c[1], "none").eng.l1_sstables
                               IN  MemContainsKey(eng.mem, k)
                                      <=> \E i \in 1..Len(out) : k \in DOMAIN out[i].entries

\* C19: dropping an engine, whose best-effort flush of a non-empty memtable
\* may succeed or fail at any of its steps, and reopening it gives for every
\* key the get result the engine gave before the drop.
C19_CloseReopen ==
    up => \A c \in ClockReads, fail \in Fails :
            /\ EngineNew(Drop(eng, disk, now, c[1], c[2], fail).disk,
                         eng.flush_threshold, eng.wal_sync).err = "none"
            /\ SameReads(eng, EngineNew(Drop(eng, disk, now, c[1], c[2], fail).disk,
                                        eng.flush_threshold, eng.wal_sync).eng)

\* the records of a list of frames that appends wrote
RECURSIVE RecordsOf(_)
RecordsOf(frames) ==
    IF frames = <<>> THEN <<>> ELSE <<Head(frames).rec[1]>> \o RecordsOf(Tail(frames))

\* replay of the first n bytes returns Ok having delivered exactly the records
\* of the frames that lie wholly inside them
PrefixReplays(n) ==
    replay(SubSeq(unit.file, 1, n))
        = Replayed(RecordsOf(SelectSeq(unit.frames,
                       LAMBDA f : f.at + Len(FrameOf(f.body)) - 1 <= n)), "none")

\* C15: for any sequence of records appended to a WAL, across any writer
\* re-openings, replay returns Ok having delivered exactly those records in
\* order; and replay of any byte-prefix of the file, as a kill in the middle
\* of an append leaves it, returns Ok having delivered exactly the records
\* whose frames lie wholly inside the prefix.
C15_WalRoundTrip ==
    (Intact /\ \A i \in 1..Len(unit.frames) : unit.frames[i].rec # None)
        => /\ PrefixReplays(Len(unit.file))
           /\ unit.torn = 0 => \A n \in 0..Len(unit.file) : PrefixReplays(n)

\* C16: when a WAL frame that is read in full has a CRC mismatch, an unknown
\* op code or an inconsistent length, replay returns a corruption error, and
\* Engine::new returns that error instead of an engine built from the records
\* before the bad frame.
C16_CorruptionFatal ==
    (unit.kind = "wal" /\ unit.torn = 0)
        => \A j \in 1..Len(unit.frames) :
              \* frame j is read in full and is bad: the damaged byte is in its crc
              \* or body, or it is a foreign frame; the frames before it are good
              (/\ \A i \in 1..(j - 1) : unit.frames[i].rec # None
               /\ IF unit.damaged # 0
                  THEN /\ unit.damaged >= unit.frames[j].at + IntWidth
                       /\ unit.damaged
                             < unit.frames[j].at + Len(FrameOf(unit.frames[j].body))
                  ELSE unit.frames[j].rec = None)
                  \* replay stops at it with Corrupt, the records before it
                  \* delivered, and Engine::new returns the error
                  => /\ replay(unit.file)
                         = Replayed(RecordsOf(SubSeq(unit.frames, 1, j - 1)), "corrupt")
                     /\ EngineNew([FreshDisk EXCEPT !.wal = unit.file], 1, TRUE).err
                         = "corrupt"

\* every key of m is at most MAX_KEY_BYTES long and every value at most
\* MAX_VALUE_BYTES
WithinCaps(m) ==
    \A k \in DOMAIN m :
        /\ KeyLen(k) <= MAX_KEY_BYTES
        /\ m[k].value # None => ValLen(m[k].value[1]) <= MAX_VALUE_BYTES

\* the file written from the memtable opens, and the reader gives for every
\* key what the memtable holds, its bloom filter admitting every key written
RoundTrips ==
    /\ unit.stage # "refused"
    /\ unit.stage = "open" =>
          /\ unit.reader[1].err = "none"
          /\ \A k \in DOMAIN unit.mem.map : may_contain(unit.reader[1].bloom[1], KeyBytes(k))
          /\ \A k \in EmptyKey..BigKey :
                SSTableReaderGet(unit.reader[1], k)
                    = [err |-> "none",
                       entry |-> ReaderGet(ReaderOpen(<<0, 0>>, SstFile(unit.mem.map)), k)]
    /\ (unit.stage = "open" /\ unit.got # None) =>
          /\ unit.got[1][2].err = "none"
          /\ unit.got[1][2].entry
                = (IF unit.got[1][1] \in DOMAIN unit.mem.map
                   THEN Some(unit.mem.map[unit.got[1][1]]) ELSE None)

\* C18 as stated: for any non-empty memtable m, after write_from_memtable(m)
\* and open, reader.get(k) returns exactly m's entry for every key k in m, the
\* bloom filter reporting may_contain(k) = true for every inserted key, and
\* absence for every key not in m.
C18_AnyMemtable ==
    (unit.kind = "sst" /\ ~MemIsEmpty(unit.mem)) => RoundTrips

\* C18: for any non-empty memtable m whose keys are at most 64 KiB long and
\* whose values are at most 10 MiB long, after write_from_memtable(m) and open,
\* reader.get(k) returns exactly m's entry (seq and value, or tombstone) for
\* every key k in m, the bloom filter reporting may_contain(k) = true for every
\* inserted key, and absence for every key not in m.
C18_SstRoundTrip ==
    (unit.kind = "sst" /\ ~MemIsEmpty(unit.mem) /\ WithinCaps(unit.mem.map)) => RoundTrips

\* a get returned the tombstone of a file of two keys, one of them the empty
\* key and one with a value, whose bloom filter rejects the key not written
C18_Witness ==
    /\ unit.kind = "sst"
    /\ unit.stage = "open"
    /\ WithinCaps(unit.mem.map)
    /\ Cardinality(DOMAIN unit.mem.map) = 2
    /\ EmptyKey \in DOMAIN unit.mem.map
    /\ \E k \in DOMAIN unit.mem.map : unit.mem.map[k].value # None
    /\ unit.got # None
    /\ unit.got[1][1] \in DOMAIN unit.mem.map
    /\ unit.got[1][2] = [err |-> "none", entry |-> Some(unit.mem.map[unit.got[1][1]])]
    /\ unit.got[1][2].entry[1].value = None
    /\ \E k \in Keys : k \notin DOMAIN unit.mem.map
                          /\ ~may_contain(unit.reader[1].bloom[1], KeyBytes(k))

\* C21: when compact() of an engine holding at least two SSTables fails in
\* the merge or in the write of the new SSTable, it returns the error, no
\* .sst.tmp file is left, the saved manifest and every .sst file are as they
\* were, and the engine's L0 and L1 reader lists and get(k) for every key are
\* as before the call.
C21_CompactFailureIntact ==
    (up /\ Len(eng.l0_sstables) + Len(eng.l1_sstables) >= 2)
        => \A c \in ClockReads, fail \in {"merge_read", "merge_read_late", "compact_write"} :
              LET r == Compact(eng, disk, now, c[1], fail)
              IN  r.err # "none"
                    => /\ r.disk.tmp = {}
                       /\ r.disk.manifest = disk.manifest
                       /\ r.disk.files = disk.files
                       /\ r.eng.manifest = eng.manifest
                       /\ r.eng.l0_sstables = eng.l0_sstables
                       /\ r.eng.l1_sstables = eng.l1_sstables
                       /\ SameReads(eng, r.eng)

\* C22: an open that finds no manifest entries and at least two .sst files
\* loads them into L0 by descending file name and saves a manifest listing
\* them in that order, so that the next open loads L0 in the same order and
\* get(k) gives the same for every key.
C22_FallbackOrder ==
    (~up /\ disk.manifest = <<>> /\ Cardinality(DOMAIN disk.files) >= 2)
        => LET first == EngineNew(disk, eng.flush_threshold, eng.wal_sync)
               second == EngineNew(first.disk, eng.flush_threshold, eng.wal_sync)
           IN  /\ first.err = "none"
               /\ [i \in 1..Len(first.eng.l0_sstables) |-> first.eng.l0_sstables[i].name]
                     = SortDesc(DOMAIN disk.files)
               /\ l0_filenames(first.disk.manifest) = SortDesc(DOMAIN disk.files)
               /\ second.err = "none"
               /\ second.eng.l0_sstables = first.eng.l0_sstables
               /\ SameReads(first.eng, second.eng)

\* C23: at every step of the write of an SSTable, a kill at any byte included,
\* what is under <name>.sst is the complete file with a valid footer; partly
\* written content is only under <name>.sst.tmp, which is gone once the write
\* returned and once the next open cleaned up.
C23_AtomicCreate ==
    unit.kind = "sst"
        => /\ unit.file # None
                => /\ unit.file[1] = write_from_memtable(unit.mem).file
                   /\ read_footer_versioned(unit.file[1]).version = 3
                   /\ read_footer_versioned(unit.file[1]).bloom_offset
                         <= read_footer_versioned(unit.file[1]).index_offset
                   /\ read_footer_versioned(unit.file[1]).index_offset
                         < Len(unit.file[1]) - read_footer_versioned(unit.file[1]).size
           /\ unit.stage \in {"file", "open", "cleaned"} => unit.tmp = None
           /\ unit.stage \in {"file", "open"} => unit.file # None

\* a kill left the DATA section of a memtable of two keys and part of what
\* follows it under the temporary name, and nothing under the final name
C23_Witness ==
    /\ unit.kind = "sst"
    /\ unit.stage = "killed"
    /\ unit.file = None
    /\ unit.tmp # None
    /\ Cardinality(DOMAIN unit.mem.map) = 2
    /\ Len(unit.tmp[1]) > read_footer_versioned(write_from_memtable(unit.mem).file).bloom_offset
    /\ Len(unit.tmp[1]) < Len(write_from_memtable(unit.mem).file)

\* C24: whatever the clock reads, a flush and a compaction write their output
\* under a name that no .sst file of the directory has, the compaction a flush
\* triggers included, and the file a compaction installs as its one L1 reader
\* is there to open after the old files are deleted.
C24_NeverOverwritten ==
    up => \A c \in ClockReads :
            /\ Len(eng.l0_sstables) + Len(eng.l1_sstables) >= 2
                  => /\ <<eng.seq, now + c[1]>> \notin DOMAIN disk.files
                     /\ Compact(eng, disk, now, c[1], "none").err # "open"
            /\ ~MemIsEmpty(eng.mem)
                  => /\ <<eng.seq, now + c[1]>> \notin DOMAIN disk.files
                     /\ (Triggering /\ Len(eng.l0_sstables) + Len(eng.l1_sstables) >= 1)
                           => /\ <<eng.seq, now + c[1] + c[2]>>
                                    \notin DOMAIN BeforeAutoCompact(c).disk.files
                              /\ FlushNow(c).err # "open"

\* C25: however the get calls of threads sharing one SSTableReader interleave,
\* each call returns the entry of its own key, absence for a key the file does
\* not hold, and never an error or the record of another key.
C25_ConcurrentGets ==
    unit.kind = "gets"
        => \A t \in 1..MaxGetters :
              unit.pc[t] = "done"
                  => unit.res[t] = [err |-> "none",
                                    entry |-> IF unit.key[t] \in DOMAIN unit.mem
                                              THEN Some(unit.mem[unit.key[t]]) ELSE None]

\* a thread returned the tombstone of its key after it had to wait for the
\* Mutex, while another thread, between its seek and its read, holds the file
\* handle at the record of another key
C25_Witness ==
    /\ unit.kind = "gets"
    /\ unit.waited
    /\ \E t \in 1..MaxGetters, o \in 1..MaxGetters :
          /\ unit.pc[t] = "done"
          /\ unit.key[t] \in DOMAIN unit.mem
          /\ unit.res[t] = [err |-> "none", entry |-> Some(unit.mem[unit.key[t]])]
          /\ unit.mem[unit.key[t]].value = None
          /\ unit.pc[o] = "sought"
          /\ unit.key[o] # unit.key[t]
          /\ unit.pos # unit.reader.index[unit.key[t]]

\* C26 as stated: after any successful set or del the memtable's approx_size
\* is below flush_threshold.
C26_BelowThreshold ==
    (up /\ last.op \in {"set", "del"} /\ last.err = "none")
        => eng.mem.approx_size < eng.flush_threshold

\* C26: after any successful set or del the memtable's approx_size is below
\* flush_threshold, or is 0 when flush_threshold is 0: a set or del that brings
\* approx_size to flush_threshold or above flushes the memtable, which leaves
\* it and the WAL empty, and one that leaves approx_size below the threshold
\* leaves the memtable with its entry and writes no file.
C26_FlushThreshold ==
    /\ (up /\ last.op \in {"set", "del"} /\ last.err = "none")
          => /\ eng.mem.approx_size < Max(eng.flush_threshold, 1)
             /\ eng.flush_threshold = 0 => eng.mem.approx_size = 0
    /\ up => \A key \in Keys, value \in Vals, c \in ClockReads :
                LET s == Set(eng, disk, key, value, now, c[1], c[2], "none")
                    d == Del(eng, disk, key, now, c[1], c[2], "none")
                    put == MemPut(eng.mem, key, value, eng.seq + 1)
                    del == MemDelete(eng.mem, key, eng.seq + 1)
                IN  /\ s.err = "none"
                          => IF put.approx_size >= eng.flush_threshold
                             THEN MemIsEmpty(s.eng.mem) /\ s.disk.wal = <<>>
                             ELSE s.eng.mem = put /\ s.disk.files = disk.files
                                     /\ s.eng.l0_sstables = eng.l0_sstables
                    /\ d.err = "none"
                          => IF del.approx_size >= eng.flush_threshold
                             THEN MemIsEmpty(d.eng.mem) /\ d.disk.wal = <<>>
                             ELSE d.eng.mem = del /\ d.disk.files = disk.files
                                     /\ d.eng.l0_sstables = eng.l0_sstables

\* with a threshold of 3 a del has just left a tombstone, of size 1, in the
\* memtable of an engine that has flushed before; a set of the same key from
\* here does not flush and a set of another key does
C26_Witness ==
    /\ up
    /\ last.op = "del" /\ last.err = "none"
    /\ eng.flush_threshold = 3
    /\ eng.mem.approx_size = 1
    /\ Len(eng.l0_sstables) + Len(eng.l1_sstables) >= 1
    /\ Set(eng, disk, last.key, 1, now, 0, 0, "none").err = "none"
    /\ Set(eng, disk, last.key, 1, now, 0, 0, "none").eng.mem.approx_size = 2
    /\ \E key \in Keys :
          /\ Set(eng, disk, key, 1, now, 0, 0, "none").err = "none"
          /\ MemIsEmpty(Set(eng, disk, key, 1, now, 0, 0, "none").eng.mem)

\* C27: a put or delete of key k with a seq at or below the seq of the entry
\* the memtable holds for k leaves the memtable as it was, entries, len and
\* approx_size; one with a higher seq, or of a key not held, installs its
\* entry for k and leaves every other entry; so the seq held for a key never
\* decreases while the memtable is not cleared.
C27_StaleWrite ==
    (unit.kind = "mem" /\ unit.rec.op \in {"put", "delete"})
        => LET r == unit.rec
               stale == r.key \in DOMAIN unit.prev.map /\ r.seq <= unit.prev.map[r.key].seq
           IN  /\ stale => /\ unit.mem = unit.prev
                           /\ Cardinality(DOMAIN unit.mem.map) = Cardinality(DOMAIN unit.prev.map)
               /\ ~stale => /\ DOMAIN unit.mem.map = DOMAIN unit.prev.map \cup {r.key}
                            /\ unit.mem.map[r.key]
                                  = [seq |-> r.seq,
                                     value |-> IF r.op = "put" THEN Some(r.value) ELSE None]
                            /\ \A k \in DOMAIN unit.prev.map \ {r.key} :
                                  unit.mem.map[k] = unit.prev.map[k]
               /\ \A k \in DOMAIN unit.prev.map :
                     k \in DOMAIN unit.mem.map /\ unit.mem.map[k].seq >= unit.prev.map[k].seq

\* a put with the seq of the tombstone held for its key was ignored, after a
\* delete with a higher seq had replaced a value
C27_Witness ==
    /\ unit.kind = "mem"
    /\ unit.rec.op = "put"
    /\ Len(unit.log) = 3
    /\ unit.log[1].value # None
    /\ unit.log[2] = WalDel(unit.rec.seq, unit.rec.key)
    /\ unit.log[1].key = unit.rec.key /\ unit.log[1].seq < unit.rec.seq
    /\ unit.mem = unit.prev
    /\ unit.mem.map[unit.rec.key] = [seq |-> unit.rec.seq, value |-> None]

\* C28: after any sequence of put, delete (stale or not) and clear, approx_size
\* is the sum over the entries of the memtable of the length of the key plus
\* the length of the value of a live entry, and it is 0 exactly when no entry
\* has a byte of key or of value.
C28_ApproxSize ==
    unit.kind = "mem"
        => /\ unit.mem.approx_size = EntryBytes(unit.mem.map, DOMAIN unit.mem.map)
           /\ unit.mem.approx_size = 0
                 <=> \A k \in DOMAIN unit.mem.map :
                        KeyLen(k) = 0 /\ OptLen(unit.mem.map[k].value) = 0
           /\ unit.rec.op = "clear" => unit.mem.approx_size = 0 /\ MemIsEmpty(unit.mem)

\* a value was replaced by a tombstone, an empty-key tombstone was added, and
\* a stale put of a value came last: one byte of key is all that is counted
C28_Witness ==
    /\ unit.kind = "mem"
    /\ Len(unit.log) = 3
    /\ unit.rec.op = "put" /\ unit.rec.value # 0 /\ unit.rec.key \in Keys
    /\ unit.mem = unit.prev
    /\ unit.log[1].value = None /\ unit.log[1].key = unit.rec.key
    /\ unit.log[2] = WalDel(1, EmptyKey)
    /\ DOMAIN unit.mem.map = {EmptyKey, unit.rec.key}
    /\ unit.mem.approx_size = 1

\* C29: replaying the records of a WAL twice over, or replaying any one of
\* them again with its seq after the replay, gives the memtable of one
\* replay: the same entries, the same approx_size, the same highest seq.
C29_ReplayIdempotent ==
    unit.kind = "mem"
        => LET once  == replay_wal_and_build(unit.wal)
               twice == replay_wal_and_build(unit.wal \o unit.wal)
           IN  /\ once.err = "none" /\ twice.err = "none"
               /\ replay(unit.wal).records = unit.log
               /\ once.mem = unit.mem
               /\ twice.mem = once.mem
               /\ twice.max_seq = once.max_seq
               /\ \A i \in 1..Len(unit.log) : ApplyWal(once.mem, unit.log[i]) = once.mem

\* a log of a put, a put of the same key with the same seq and another value,
\* and a delete of another key: the first put stands after the replay
C29_Witness ==
    /\ unit.kind = "mem"
    /\ Len(unit.log) = 3
    /\ unit.log[1].key = unit.log[2].key /\ unit.log[1].seq = unit.log[2].seq
    /\ unit.log[1].value # None /\ unit.log[2].value # None
    /\ unit.log[1].value # unit.log[2].value
    /\ unit.log[3].value = None /\ unit.log[3].key # unit.log[1].key
    /\ replay_wal_and_build(unit.wal \o unit.wal).mem.map[unit.log[1].key].value
          = unit.log[1].value

\* C30 as stated: after any adds, l0_filenames and l1_filenames list the
\* files of their level newest first, and load_or_create after save returns
\* the entries saved, in their order
C30_SaveLoadAnyName ==
    unit.kind = "manifest"
        => /\ \A level \in {0, 1} :
                 LET listed == NamesOf(ManifestLevel(unit.entries, level))
                     given  == NamesOf(ManifestLevel(unit.added, level))
                 IN  /\ Len(listed) = Len(given)
                     /\ \A i \in 1..Len(listed) : listed[i] = given[Len(given) + 1 - i]
           /\ unit.stage = "loaded"
                 => unit.loaded.err = "none" /\ unit.loaded.entries = unit.entries

\* C30: after any adds, l0_filenames and l1_filenames list the files of
\* their level in reverse order of insertion; when no file name holds a line
\* break, load_or_create after save returns the entries saved, in their order.
C30_ManifestOrder ==
    unit.kind = "manifest"
        => /\ \A level \in {0, 1} :
                 LET listed == IF level = 0 THEN l0_filenames(unit.entries)
                               ELSE l1_filenames(unit.entries)
                     given  == NamesOf(ManifestLevel(unit.added, level))
                 IN  /\ Len(listed) = Len(given)
                     /\ \A i \in 1..Len(listed) : listed[i] = given[Len(given) + 1 - i]
           /\ (/\ unit.stage = "loaded"
               /\ \A i \in 1..Len(unit.entries) :
                     \A j \in 1..Len(unit.entries[i].filename) :
                        unit.entries[i].filename[j] # "\n")
                 => unit.loaded.err = "none" /\ unit.loaded.entries = unit.entries

\* three names, with a colon, a leading blank and an inner blank, added to L0,
\* L1 and L0 again, were saved and loaded
C30_Witness ==
    /\ unit.kind = "manifest"
    /\ unit.stage = "loaded"
    /\ unit.added = << [filename |-> <<":", "a", ".sst">>, level |-> 0],
                       [filename |-> <<" ", "a", ".sst">>, level |-> 1],
                       [filename |-> <<"a", " ", ".sst">>, level |-> 0] >>
    /\ unit.loaded.entries = << unit.added[3], unit.added[1], unit.added[2] >>

\* C31: when the read of the record of a key from a source fails during a
\* merge, whether that source is the first popped for the key or one drained
\* as a duplicate, next_entry returns the error: the merge emits no entry
\* for that key.
C31_MergeErrorsSurfaced ==
    unit.kind = "merge"
        => \A i \in 1..Len(unit.out) :
              \A b \in unit.it.bad : unit.out[i][1] # b[1]

\* C32: when the read of an in-range key from an L0 or L1 SSTable fails, scan
\* returns an error, never a result computed without the unreadable entry.
C32_ScanPropagates ==
    up => \A i \in 1..Len(eng.l0_sstables \o eng.l1_sstables) :
             LET sst == (eng.l0_sstables \o eng.l1_sstables)[i]
             IN  \A k \in DOMAIN sst.entries :
                    ScanResult(eng, EmptyKey, EmptyKey, {<<sst.name, k>>}).err # "none"

C34_LayerOrdering ==
    up => \A k \in Keys :
            LET in0 == {i \in 1..Len(eng.l0_sstables) : k \in DOMAIN eng.l0_sstables[i].entries}
                in1 == {i \in 1..Len(eng.l1_sstables) : k \in DOMAIN eng.l1_sstables[i].entries}
            IN  /\ MemContainsKey(eng.mem, k)
                      => /\ \A i \in in0 : eng.mem.map[k].seq >= eng.l0_sstables[i].entries[k].seq
                         /\ \A i \in in1 : eng.mem.map[k].seq >= eng.l1_sstables[i].entries[k].seq
                /\ \A i \in in0, j \in in1 :
                      eng.l0_sstables[i].entries[k].seq >= eng.l1_sstables[j].entries[k].seq
                /\ \A i, j \in in0 :
                      i < j => eng.l0_sstables[i].entries[k].seq >= eng.l0_sstables[j].entries[k].seq
                /\ \A i, j \in in1 :
                      i < j => eng.l1_sstables[i].entries[k].seq >= eng.l1_sstables[j].entries[k].seq

\* C35: in every engine state and for every key k, get(k) returns a live
\* value v exactly when scan with empty bounds holds the pair (k, v); a key
\* absent for get is in no pair of scan.
C35_GetScanAgree ==
    up => \A k \in Keys :
            LET g     == Get(eng, k)
                pairs == Scan(eng, EmptyKey, EmptyKey)
            IN  /\ g # None => \E i \in 1..Len(pairs) : pairs[i] = <<k, g[1][2]>>
                /\ \A i \in 1..Len(pairs) :
                      pairs[i][1] = k => g # None /\ g[1][2] = pairs[i][2]

\* C36: when a reopen of the files as they are would give the get results of
\* the engine, a kill of the process between any two steps of compact(),
\* called by the owner or by a flush that reached the L0 trigger, followed by
\* a reopen, gives for every key the get result of before the compaction
\* started.
C36_CompactCrash ==
    up => \A c \in ClockReads :
            /\ (Opens /\ SameReads(eng, Recovered))
                  => \A p \in Compact(eng, disk, now, c[1], "none").points :
                        LET re == EngineNew(p.disk, eng.flush_threshold, eng.wal_sync)
                        IN  re.err = "none" /\ SameReads(eng, re.eng)
            /\ (/\ ~MemIsEmpty(eng.mem)
                /\ BeforeAutoCompact(c).err = "none"
                /\ SameReads(BeforeAutoCompact(c).eng,
                             EngineNew(BeforeAutoCompact(c).disk,
                                       eng.flush_threshold, eng.wal_sync).eng))
                  => \A p \in AutoCompact(BeforeAutoCompact(c), c).points :
                        LET re == EngineNew(p.disk, eng.flush_threshold, eng.wal_sync)
                        IN  re.err = "none" /\ SameReads(BeforeAutoCompact(c).eng, re.eng)

\* C37: in every state the process can be killed in, every file name listed
\* in the MANIFEST on disk names a .sst file of the SST directory.
C37_ManifestNeverDangles ==
    \A i \in 1..Len(disk.manifest) : disk.manifest[i].filename \in DOMAIN disk.files

\* C38: when set(k, v) or del(k) returns the error of its WAL append or of
\* the flush it triggered, get(k) in the same engine, and get(k) after a
\* reopen, give what get(k) gave before the call.
C38_FailedInvisible ==
    up => \A k \in Keys, c \in ClockReads, fail \in Fails :
            /\ \A v \in Vals :
                  LET r == Set(eng, disk, k, v, now, c[1], c[2], fail)
                  IN  (r.err # "none" /\ ~Rejected(r))
                         => /\ Get(r.eng, k) = Get(eng, k)
                            /\ Get(EngineNew(r.disk, eng.flush_threshold, eng.wal_sync).eng, k)
                                  = Get(eng, k)
            /\ LET r == Del(eng, disk, k, now, c[1], c[2], fail)
               IN  (r.err # "none" /\ ~Rejected(r))
                      => /\ Get(r.eng, k) = Get(eng, k)
                         /\ Get(EngineNew(r.disk, eng.flush_threshold, eng.wal_sync).eng, k)
                               = Get(eng, k)

\* C39: in every engine state, right after an open included, the seq of the
\* engine is at or above the seq of every entry of the memtable, of every
\* record of the WAL and of every entry of every .sst file of the directory.
C39_SeqDominates ==
    up => /\ \A k \in DOMAIN eng.mem.map : eng.mem.map[k].seq <= eng.seq
          /\ \A i \in 1..Len(replay(disk.wal).records) :
                replay(disk.wal).records[i].seq <= eng.seq
          /\ \A n \in DOMAIN disk.files :
                \A k \in DOMAIN disk.files[n].entries : disk.files[n].entries[k].seq <= eng.seq

\* C40: after every set, del, force_flush or compact call, whether it
\* returned Ok or an error, the filenames of the in-memory L0 readers are the
\* L0 filenames of the in-memory manifest in the same order, the filenames of
\* the L1 readers are its L1 filenames, and neither list names a file twice.
C40_LevelsMatchManifest ==
    (up /\ last.op \in {"set", "del", "force_flush", "compact"})
        => LET l0 == [i \in 1..Len(eng.l0_sstables) |-> eng.l0_sstables[i].name]
               l1 == [i \in 1..Len(eng.l1_sstables) |-> eng.l1_sstables[i].name]
           IN  /\ l0 = l0_filenames(eng.manifest)
               /\ l1 = l1_filenames(eng.manifest)
               /\ \A i, j \in 1..Len(l0) : l0[i] = l0[j] => i = j
               /\ \A i, j \in 1..Len(l1) : l1[i] = l1[j] => i = j

====
